---- MODULE Spec2Model ----
(***************************************************************************)
(* Model of the migration conflict detector: schema graphs, the graph      *)
(* comparator, the vertex matcher, the rule registry with rules R1..R7     *)
(* and the detection pipeline of MigrationConflictDetector.                *)
(*                                                                         *)
(* Python values are encoded as strings: None is "None", True and False    *)
(* are "True" and "False".  A Python dict is a function whose DOMAIN is    *)
(* the set of its keys.  A Python set of DatabaseObject keeps one element  *)
(* per __eq__ class; which one, and the iteration order of a set, depend   *)
(* on string hashing and are nondeterministic choices of the actions.      *)
(***************************************************************************)
EXTENDS Integers, Sequences, FiniteSets, TLC

\* ---------------------------------------------------------------------
\* Bounds of the model
\* ---------------------------------------------------------------------
MaxVertices == 2

\* ---------------------------------------------------------------------
\* Python helpers
\* ---------------------------------------------------------------------
None == "None"

\* str.lower() on the identifiers that occur in the model
Lower(s) ==
    CASE s = "Users" -> "users"
      [] s = "ID" -> "id"
      [] s = "None" -> "none"
      [] OTHER -> s

\* `x or "public"`
OrPublic(x) == IF x = None \/ x = "" THEN "public" ELSE x

\* dict.get(key) with the default None
Get(d, k) == IF k \in DOMAIN d THEN d[k] ELSE None

\* truth value of an attribute value
Truthy(v) == v \notin {None, "False", ""}

EmptyDict == [k \in {} |-> None]

Min(a, b) == IF a <= b THEN a ELSE b

\* Python bool -> its encoding
Bool(b) == IF b THEN "True" ELSE "False"

\* str.upper() on the type words that occur in the model
Upper(s) ==
    CASE s = "integer" -> "INTEGER"
      [] s = "varchar" -> "VARCHAR"
      [] OTHER -> s

\* the items of a sequence, and a sequence without its first item
Range(s) == {s[i] : i \in DOMAIN s}
Rest(s) == SubSeq(s, 2, Len(s))

\* The order in which a Python set is iterated depends on the hashes of its
\* elements.  The model takes two orders as representatives: by ascending and
\* by descending vertex id.
IterationOrders == {"asc", "desc"}

RECURSIVE ById(_)
ById(S) ==
    IF S = {} THEN <<>>
    ELSE LET m == CHOOSE x \in S : \A y \in S : x.id <= y.id
         IN <<m>> \o ById(S \ {m})

Reverse(s) == [i \in 1..Len(s) |-> s[Len(s) + 1 - i]]

\* the elements of a set of objects with distinct ids, in iteration order
Iterate(S, it) == IF it = "asc" THEN ById(S) ELSE Reverse(ById(S))

\* sorted(ids) for a finite set of integers
RECURSIVE Sorted(_)
Sorted(S) ==
    IF S = {} THEN <<>>
    ELSE LET m == CHOOSE x \in S : \A y \in S : x <= y
         IN <<m>> \o Sorted(S \ {m})

\* ---------------------------------------------------------------------
\* core/models.py
\* ---------------------------------------------------------------------
TABLE == "table"
COLUMN == "column"
PRIMARY_KEY == "primary_key"
UNIQUE_CONSTRAINT == "unique_constraint"
FOREIGN_KEY == "foreign_key"

CONTAINS == "contains"
REFERENCES == "references"
DEPENDS_ON == "depends_on"

DatabaseObject(id, type, name, schema, attributes) ==
    [id |-> id, type |-> type, name |-> name, schema |-> schema, attributes |-> attributes]

\* DatabaseObject.__eq__ (and __hash__): type, schema and name only
DatabaseObject_eq(a, b) ==
    a.type = b.type /\ a.schema = b.schema /\ a.name = b.name

\* the Python sets that can result from putting the objects of S into a set:
\* one element per __eq__ class, the first one inserted
RECURSIVE PickOnePerClass(_)
PickOnePerClass(classes) ==
    IF classes = {} THEN {{}}
    ELSE LET c == CHOOSE x \in classes : TRUE
         IN {{r} \cup T : r \in c, T \in PickOnePerClass(classes \ {c})}

PySets(S) == PickOnePerClass({{t \in S : DatabaseObject_eq(t, o)} : o \in S})

\* ---------------------------------------------------------------------
\* graph/schema_graph.py
\* ---------------------------------------------------------------------
Edge(src, dst, relation) == [src |-> src, dst |-> dst, relation |-> relation]

SchemaGraph == [next_id |-> 1, vertices |-> <<>>, edges |-> {}]

VertexIds(g) == DOMAIN g.vertices
VertexObjects(g) == {g.vertices[i] : i \in DOMAIN g.vertices}

\* add_vertex: the object gets the next id and is stored under it
add_vertex(g, obj) ==
    [g EXCEPT !.vertices = (g.next_id :> [obj EXCEPT !.id = g.next_id]) @@ g.vertices,
              !.next_id = g.next_id + 1]

\* add_edge: raises ValueError unless both endpoints exist
add_edge_raises(g, src_id, dst_id) ==
    src_id \notin DOMAIN g.vertices \/ dst_id \notin DOMAIN g.vertices

add_edge(g, src_id, dst_id, relation) ==
    [g EXCEPT !.edges = g.edges \cup {Edge(src_id, dst_id, relation)}]

\* relation = None means no filter
get_outgoing(g, obj, relation) ==
    {e \in g.edges : e.src = obj.id /\ (relation = None \/ e.relation = relation)}

get_incoming(g, obj, relation) ==
    {e \in g.edges : e.dst = obj.id /\ (relation = None \/ e.relation = relation)}

\* the result None where an object is expected
NoObject == [id |-> 0, type |-> None, name |-> None, schema |-> None,
             attributes |-> [k \in {} |-> None]]

\* get_table_of_object: the table itself, else the target of the first Contains
\* edge met while iterating the edge set; the possible results
get_table_of_object(g, obj) ==
    IF obj.type = TABLE THEN {obj}
    ELSE LET cs == {e \in g.edges : e.src = obj.id /\ e.relation = CONTAINS}
         IN IF cs = {} THEN {NoObject}
            ELSE {IF e.dst \in DOMAIN g.vertices THEN g.vertices[e.dst] ELSE NoObject :
                      e \in cs}

\* ---------------------------------------------------------------------
\* comparison/comparator.py
\* ---------------------------------------------------------------------
_object_key(obj) ==
    LET schema == Lower(OrPublic(obj.schema))
        name == Lower(obj.name)
        table == IF obj.type = COLUMN
                 THEN (IF "table" \in DOMAIN obj.attributes
                       THEN Lower(obj.attributes["table"]) ELSE "")
                 ELSE ""
    IN <<schema, obj.type, table, name>>

\* {_object_key(o): o for o in graph.vertices.values()}: a later vertex
\* replaces an earlier one with the same key
KeyIndex(g) ==
    LET keys == {_object_key(o) : o \in VertexObjects(g)}
    IN [k \in keys |->
          LET ids == {i \in DOMAIN g.vertices : _object_key(g.vertices[i]) = k}
              last == CHOOSE i \in ids : \A j \in ids : j <= i
          IN g.vertices[last]]

_diff_attributes(obj_a, obj_b) ==
    LET attrs_a == obj_a.attributes
        attrs_b == obj_b.attributes
        all_keys == DOMAIN attrs_a \cup DOMAIN attrs_b
    IN {key \in all_keys : Get(attrs_a, key) # Get(attrs_b, key)}

ModifiedObject(before, after, changed_fields) ==
    [before |-> before, after |-> after, changed_fields |-> changed_fields]

\* the Deltas compare(graph_a, graph_b) can return; `it` is the order in which
\* the set common_keys is iterated
compare(ga, gb, it) ==
    LET objs_a == KeyIndex(ga)
        objs_b == KeyIndex(gb)
        keys_a == DOMAIN objs_a
        keys_b == DOMAIN objs_b
        added_keys == keys_b \ keys_a
        removed_keys == keys_a \ keys_b
        common_keys == keys_a \cap keys_b
        before == Iterate({objs_a[k] : k \in common_keys}, it)
        pairs == [i \in DOMAIN before |->
                     ModifiedObject(before[i], objs_b[_object_key(before[i])],
                         _diff_attributes(before[i], objs_b[_object_key(before[i])]))]
    IN {[objects_added |-> added,
         objects_removed |-> removed,
         objects_modified |-> SelectSeq(pairs, LAMBDA m : m.changed_fields # {}),
         edges_added |-> gb.edges \ ga.edges,
         edges_removed |-> ga.edges \ gb.edges] :
           added \in PySets({objs_b[k] : k \in added_keys}),
           removed \in PySets({objs_a[k] : k \in removed_keys})}

\* ---------------------------------------------------------------------
\* comparison/matcher.py
\* ---------------------------------------------------------------------
\* the key string f"{type}:{schema}:{name}" with the optional ":table:{table}"
\* suffix, kept as the tuple of its parts
_vertex_key(vertex) ==
    LET base == <<vertex.type, vertex.schema, vertex.name>>
        t1 == Get(vertex.attributes, "table")
        t2 == IF Truthy(t1) THEN t1 ELSE Get(vertex.attributes, "from_table")
    IN IF vertex.type = COLUMN /\ Truthy(t1) THEN base \o <<"table", t1>>
       ELSE IF vertex.type \in {PRIMARY_KEY, UNIQUE_CONSTRAINT, FOREIGN_KEY} /\ Truthy(t2)
            THEN base \o <<"table", t2>>
       ELSE base

\* key -> ids of the vertices with that key
_build_key_mapping(g) ==
    LET keys == {_vertex_key(g.vertices[i]) : i \in DOMAIN g.vertices}
    IN [k \in keys |-> {i \in DOMAIN g.vertices : _vertex_key(g.vertices[i]) = k}]

\* whether match_by_key_pairs raises VertexMatchingError
match_by_key_pairs_raises(ga, gb, strict_keys) ==
    LET key_to_ids_a == _build_key_mapping(ga)
        key_to_ids_b == _build_key_mapping(gb)
        common_keys == DOMAIN key_to_ids_a \cap DOMAIN key_to_ids_b
    IN strict_keys /\ \E key \in common_keys :
           Cardinality(key_to_ids_a[key]) # 1 \/ Cardinality(key_to_ids_b[key]) # 1

\* the pairs of match_by_key_pairs, before sorting
match_by_key_pairs(ga, gb) ==
    LET key_to_ids_a == _build_key_mapping(ga)
        key_to_ids_b == _build_key_mapping(gb)
        common_keys == DOMAIN key_to_ids_a \cap DOMAIN key_to_ids_b
    IN UNION {LET sa == Sorted(key_to_ids_a[key])
                  sb == Sorted(key_to_ids_b[key])
              IN {<<sa[i], sb[i]>> : i \in 1..Min(Len(sa), Len(sb))} : key \in common_keys}

\* pairs.sort(key=lambda p: (p[0], p[1]))
RECURSIVE SortPairs(_)
SortPairs(P) ==
    IF P = {} THEN <<>>
    ELSE LET m == CHOOSE p \in P : \A q \in P :
                      p[1] < q[1] \/ (p[1] = q[1] /\ p[2] <= q[2])
         IN <<m>> \o SortPairs(P \ {m})

\* a similarity is a ratio num/den of two naturals
Ratio(num, den) == [num |-> num, den |-> den]
RatioSum(x, y) == Ratio(x.num * y.den + y.num * x.den, x.den * y.den)
RatioTimes(x, y) == Ratio(x.num * y.num, x.den * y.den)
RatioLess(x, y) == x.num * y.den < y.num * x.den

\* config.get("similarity_threshold", 0.8)
similarity_threshold == Ratio(8, 10)

\* SequenceMatcher(None, x.lower(), y.lower()).ratio(), which is twice the
\* number of matched characters over the two lengths, on the strings that
\* occur: "orders" and "users" share "ers"
_name_similarity(x, y) ==
    IF Lower(x) = Lower(y) THEN Ratio(1, 1)
    ELSE IF {Lower(x), Lower(y)} = {"orders", "users"} THEN Ratio(6, 11)
    ELSE Ratio(0, 1)

\* the score of _attributes_similarity summed over the common keys
RECURSIVE AttributeScore(_, _, _)
AttributeScore(ax, ay, keys) ==
    IF keys = {} THEN Ratio(0, 1)
    ELSE LET k == CHOOSE x \in keys : TRUE
             one == IF ax[k] = ay[k] THEN Ratio(1, 1)
                    ELSE IF ax[k] # None /\ ay[k] # None THEN _name_similarity(ax[k], ay[k])
                    ELSE Ratio(0, 1)
         IN RatioSum(one, AttributeScore(ax, ay, keys \ {k}))

_attributes_similarity(ax, ay) ==
    IF DOMAIN ax = {} /\ DOMAIN ay = {} THEN Ratio(1, 1)
    ELSE IF DOMAIN ax = {} \/ DOMAIN ay = {} THEN Ratio(0, 1)
    ELSE RatioTimes(AttributeScore(ax, ay, DOMAIN ax \cap DOMAIN ay),
                    Ratio(1, Cardinality(DOMAIN ax \cup DOMAIN ay)))

\* 0.6 * name_sim + 0.4 * attr_sim, the default weights
_calculate_vertex_similarity(a, b) ==
    IF a.type # b.type THEN Ratio(0, 1)
    ELSE RatioSum(RatioTimes(Ratio(6, 10), _name_similarity(a.name, b.name)),
                  RatioTimes(Ratio(4, 10), _attributes_similarity(a.attributes, b.attributes)))

\* the ids of the vertices of a type that are not in `already`, in the order
\* of graph.vertices
_group_unmatched_by_type(g, already, t) ==
    Sorted({i \in DOMAIN g.vertices \ already : g.vertices[i].type = t})

\* every vertex of B is a candidate, matched or not
Candidates_with_matched(vertices_b, matched_b) == vertices_b

\* `if id_b in matched_b: continue`
Candidates(vertices_b, matched_b) ==
    SelectSeq(vertices_b, LAMBDA id_b : id_b \notin matched_b)

NoBest == [id_b |-> 0, sim |-> Ratio(0, 1)]

\* the loop over vertices_b for one vertex of A: the first candidate with the
\* greatest similarity that reaches the threshold
RECURSIVE BestCandidate(_, _, _, _, _, _)
BestCandidate(ga, gb, id_a, candidates, j, best) ==
    IF j > Len(candidates) THEN best
    ELSE LET sim == _calculate_vertex_similarity(ga.vertices[id_a], gb.vertices[candidates[j]])
         IN IF ~RatioLess(sim, similarity_threshold) /\ RatioLess(best.sim, sim)
            THEN BestCandidate(ga, gb, id_a, candidates, j + 1,
                               [id_b |-> candidates[j], sim |-> sim])
            ELSE BestCandidate(ga, gb, id_a, candidates, j + 1, best)

\* the loop over vertices_a of one type
RECURSIVE PairGroup(_, _, _, _, _, _)
PairGroup(ga, gb, vertices_a, i, vertices_b, matched_b) ==
    IF i > Len(vertices_a) THEN {}
    ELSE LET best == BestCandidate(ga, gb, vertices_a[i],
                                   Candidates(vertices_b, matched_b), 1, NoBest)
         IN IF best.id_b # 0
            THEN {<<vertices_a[i], best.id_b>>}
                 \cup PairGroup(ga, gb, vertices_a, i + 1, vertices_b,
                                matched_b \cup {best.id_b})
            ELSE PairGroup(ga, gb, vertices_a, i + 1, vertices_b, matched_b)

_match_experimentally(ga, gb, already_a, already_b) ==
    LET types == {ga.vertices[i].type : i \in DOMAIN ga.vertices \ already_a}
    IN SortPairs(UNION {PairGroup(ga, gb, _group_unmatched_by_type(ga, already_a, t), 1,
                                  _group_unmatched_by_type(gb, already_b, t), {}) :
                            t \in types})

MatchResult(pairs, unique_a, unique_b) ==
    [status |-> "ok", pairs |-> pairs, unique_a |-> unique_a, unique_b |-> unique_b]

MatchRaised == [status |-> "raised", pairs |-> <<>>, unique_a |-> <<>>, unique_b |-> <<>>]
NoMatch == [status |-> "none", pairs |-> <<>>, unique_a |-> <<>>, unique_b |-> <<>>]

match(ga, gb, strict_keys, enable_experimental) ==
    IF match_by_key_pairs_raises(ga, gb, strict_keys) THEN MatchRaised
    ELSE LET P == match_by_key_pairs(ga, gb)
             extra == IF enable_experimental
                      THEN _match_experimentally(ga, gb, {p[1] : p \in P}, {p[2] : p \in P})
                      ELSE <<>>
             pairs == SortPairs(P) \o extra
             paired_a == {pairs[i][1] : i \in DOMAIN pairs}
             paired_b == {pairs[i][2] : i \in DOMAIN pairs}
         IN MatchResult(pairs,
                        Sorted(DOMAIN ga.vertices \ paired_a),
                        Sorted(DOMAIN gb.vertices \ paired_b))

\* ---------------------------------------------------------------------
\* core/models.py: Column and Table
\* ---------------------------------------------------------------------
\* Column.__init__: the attributes given, completed by setdefault
Column(name, table, schema, data_type, is_nullable, attributes) ==
    [id |-> 0, type |-> COLUMN, name |-> name, schema |-> schema,
     data_type |-> data_type,
     attributes |-> attributes @@ [table |-> table, data_type |-> data_type,
                                   is_nullable |-> Bool(is_nullable),
                                   not_null |-> Bool(~is_nullable)]]

\* Table.__init__; columns is the dict name -> Column in insertion order
Table(name, schema, columns, attributes) ==
    [id |-> 0, type |-> TABLE, name |-> name, schema |-> schema,
     columns |-> columns, attributes |-> attributes]

\* ---------------------------------------------------------------------
\* parser/sql_parser.py
\*
\* A statement is given by its normalized text and by what the regular
\* expressions and substring tests of the parser find in that text:
\*   kind      "create_table" (CREATE TABLE matching the name/body pattern),
\*             "malformed" (CREATE TABLE not matching it), "drop_table"
\*   elements  the top-level comma-separated elements of the body, each with
\*             its text, its first two words, the presence of PRIMARY KEY,
\*             UNIQUE, NOT NULL and DEFAULT in it, and its REFERENCES clause
\* ---------------------------------------------------------------------
ColumnElement(text, name, type_word, primary_key, unique, not_null, default) ==
    [kind |-> "column", text |-> text, name |-> name, type_word |-> type_word,
     primary_key |-> primary_key, unique |-> unique, not_null |-> not_null,
     default |-> default, references |-> FALSE,
     ref_text |-> "", ref_schema |-> "", ref_table |-> "", ref_column |-> ""]

WithReferences(el, ref_text, ref_schema, ref_table, ref_column) ==
    [el EXCEPT !.references = TRUE, !.ref_text = ref_text, !.ref_schema = ref_schema,
               !.ref_table = ref_table, !.ref_column = ref_column]

CreateTable(text, schema, name, elements) ==
    [kind |-> "create_table", text |-> text, schema |-> schema, name |-> name,
     elements |-> elements]

OtherStatement(kind, text) ==
    [kind |-> kind, text |-> text, schema |-> "", name |-> "", elements |-> <<>>]

\* _parse_column
_parse_column(el, table_name) ==
    LET base == [definition |-> el.text,
                 data_type |-> Upper(el.type_word),
                 table |-> table_name,
                 is_primary_key |-> Bool(el.primary_key),
                 is_unique |-> Bool(el.unique /\ ~el.primary_key),
                 not_null |-> Bool(el.not_null)]
        attributes == IF el.references THEN base @@ [foreign_key |-> el.ref_text] ELSE base
    IN Column(el.name, None, None, Upper(el.type_word), TRUE, attributes)

\* the foreign-key dict of a column-level REFERENCES clause
ColumnForeignKey(el) ==
    [referenced_schema |-> el.ref_schema, referenced_table |-> el.ref_table,
     referenced_column |-> el.ref_column]

\* table.columns[column.name] = column
DictPut(columns, column) ==
    IF \E i \in DOMAIN columns : columns[i].name = column.name
    THEN [i \in DOMAIN columns |->
             IF columns[i].name = column.name THEN column ELSE columns[i]]
    ELSE Append(columns, column)

RECURSIVE ParseElements(_, _, _)
ParseElements(table, elements, i) ==
    IF i > Len(elements) THEN table
    ELSE LET el == elements[i]
             column == _parse_column(el, table.name)
             fks == table.attributes.foreign_keys
             t1 == [table EXCEPT !.columns = DictPut(table.columns, column)]
             t2 == IF el.references
                   THEN [t1 EXCEPT !.attributes.foreign_keys =
                                       Append(fks, ColumnForeignKey(el))]
                   ELSE t1
         IN ParseElements(t2, elements, i + 1)

\* _parse_create_table on a statement that matches the pattern
_parse_create_table(stmt) ==
    ParseElements(Table(stmt.name, stmt.schema, <<>>,
                        [foreign_keys |-> <<>>, raw_sql |-> stmt.text]),
                  stmt.elements, 1)

\* parse_to_objects: only CREATE TABLE statements yield objects
parse_to_objects_raises(stmt) == stmt.kind = "malformed"

parse_to_objects(stmt) ==
    IF stmt.kind = "create_table" THEN <<_parse_create_table(stmt)>> ELSE <<>>

\* ---------------------------------------------------------------------
\* graph/builder.py
\* ---------------------------------------------------------------------
\* strip('"') on the identifiers that occur in the model
Unquote(s) == IF s = "\"users\"" THEN "users" ELSE s

_norm_ident(x) == Lower(Unquote(IF x = None THEN "" ELSE x))

_table_key(schema, table) == <<_norm_ident(OrPublic(schema)), _norm_ident(table)>>

\* f"pk_{table_name}", f"uq_{table_name}_{column}", f"fk_{table}_{ref_table}"
PkName(t) ==
    CASE t = "users" -> "pk_users"
      [] t = "orders" -> "pk_orders"
      [] t = "a" -> "pk_a"
      [] t = "b" -> "pk_b"

UqName(t, c) ==
    CASE <<t, c>> = <<"users", "email">> -> "uq_users_email"
      [] <<t, c>> = <<"users", "id">> -> "uq_users_id"

FkName(t, r) ==
    CASE <<t, r>> = <<"orders", "users">> -> "fk_orders_users"
      [] <<t, r>> = <<"users", "orders">> -> "fk_users_orders"
      [] <<t, r>> = <<"users", "users">> -> "fk_users_users"
      [] <<t, r>> = <<"orders", "orders">> -> "fk_orders_orders"
      [] <<t, r>> = <<"a", "b">> -> "fk_a_b"
      [] <<t, r>> = <<"b", "a">> -> "fk_b_a"
      [] <<t, r>> = <<"a", "a">> -> "fk_a_a"
      [] <<t, r>> = <<"b", "b">> -> "fk_b_b"
      [] <<t, r>> = <<"orders", "Users">> -> "fk_orders_Users"
      [] <<t, r>> = <<"orders", "\"users\"">> -> "fk_orders_\"users\""

\* first pass: every table becomes a vertex, indexed by its normalized name
RECURSIVE AddTables(_, _, _)
AddTables(st, objects, i) ==
    IF i > Len(objects) THEN st
    ELSE LET obj == objects[i]
         IN IF obj.type # TABLE THEN AddTables(st, objects, i + 1)
            ELSE AddTables(
                   [graph |-> add_vertex(st.graph, obj),
                    table_ids |-> (_table_key(OrPublic(obj.schema), obj.name)
                                       :> st.graph.next_id) @@ st.table_ids],
                   objects, i + 1)

\* _add_column: the column vertex and its Contains edge to the table
_add_column(g, column, table_id) ==
    LET c == [column EXCEPT !.attributes =
                 [data_type |-> column.data_type] @@ column.attributes]
        g1 == add_vertex(g, c)
    IN add_edge(g1, g.next_id, table_id, CONTAINS)

\* _add_column_constraints: PrimaryKey and UniqueConstraint vertices of a column
_add_column_constraints(g, column, column_id, table_id, table_name, schema) ==
    LET attrs == column.attributes
        is_pk == Truthy(Get(attrs, "is_primary_key"))
        is_uq == Truthy(Get(attrs, "is_unique")) /\ ~is_pk
        pk == DatabaseObject(0, PRIMARY_KEY, PkName(table_name), schema,
                             [table |-> table_name, column |-> column.name])
        uq == DatabaseObject(0, UNIQUE_CONSTRAINT, UqName(table_name, column.name), schema,
                             [table |-> table_name, column |-> column.name])
        g1 == IF is_pk
              THEN LET v == add_vertex(g, pk)
                   IN add_edge(add_edge(v, g.next_id, column_id, DEPENDS_ON),
                               g.next_id, table_id, CONTAINS)
              ELSE g
    IN IF is_uq
       THEN LET v == add_vertex(g1, uq)
            IN add_edge(add_edge(v, g1.next_id, column_id, DEPENDS_ON),
                        g1.next_id, table_id, CONTAINS)
       ELSE g1

RECURSIVE AddColumnsOf(_, _, _, _, _)
AddColumnsOf(g, table, table_id, schema, j) ==
    IF j > Len(table.columns) THEN g
    ELSE LET column == table.columns[j]
             g1 == _add_column(g, column, table_id)
             g2 == _add_column_constraints(g1, column, g.next_id, table_id,
                                           table.name, schema)
         IN AddColumnsOf(g2, table, table_id, schema, j + 1)

\* second pass: the columns and column constraints of every table
RECURSIVE AddColumns(_, _, _, _)
AddColumns(g, table_ids, objects, i) ==
    IF i > Len(objects) THEN g
    ELSE LET obj == objects[i]
             schema == OrPublic(obj.schema)
             key == _table_key(schema, obj.name)
         IN IF obj.type # TABLE \/ key \notin DOMAIN table_ids
            THEN AddColumns(g, table_ids, objects, i + 1)
            ELSE AddColumns(AddColumnsOf(g, obj, table_ids[key], schema, 1),
                            table_ids, objects, i + 1)

RECURSIVE AddForeignKeysOf(_, _, _, _, _, _)
AddForeignKeysOf(g, table_ids, table, from_table_id, schema, j) ==
    LET foreign_keys == table.attributes.foreign_keys
    IN IF j > Len(foreign_keys) THEN g
       ELSE LET fk == foreign_keys[j]
                ref_table == Get(fk, "referenced_table")
                ref_schema == IF "referenced_schema" \in DOMAIN fk
                              THEN fk.referenced_schema ELSE "public"
                key == _table_key(ref_schema, ref_table)
            IN IF ~Truthy(ref_table) \/ key \notin DOMAIN table_ids
               THEN AddForeignKeysOf(g, table_ids, table, from_table_id, schema, j + 1)
               ELSE LET fk_obj == DatabaseObject(0, FOREIGN_KEY,
                                      FkName(table.name, ref_table), schema,
                                      [from_table |-> table.name,
                                       to_table |-> ref_table,
                                       from_column |-> Get(fk, "column"),
                                       to_column |-> Get(fk, "referenced_column")])
                        g1 == add_vertex(g, fk_obj)
                        g2 == add_edge(g1, g.next_id, from_table_id, DEPENDS_ON)
                        g3 == add_edge(g2, g.next_id, table_ids[key], REFERENCES)
                    IN AddForeignKeysOf(g3, table_ids, table, from_table_id, schema, j + 1)

\* third pass: _add_foreign_key_objects
RECURSIVE _add_foreign_key_objects(_, _, _, _)
_add_foreign_key_objects(g, table_ids, objects, i) ==
    IF i > Len(objects) THEN g
    ELSE LET obj == objects[i]
             schema == OrPublic(obj.schema)
             key == _table_key(schema, obj.name)
         IN IF obj.type # TABLE \/ key \notin DOMAIN table_ids
            THEN _add_foreign_key_objects(g, table_ids, objects, i + 1)
            ELSE _add_foreign_key_objects(
                     AddForeignKeysOf(g, table_ids, obj, table_ids[key], schema, 1),
                     table_ids, objects, i + 1)

build_from_objects(objects) ==
    LET st == AddTables([graph |-> SchemaGraph, table_ids |-> <<>>], objects, 1)
        g2 == AddColumns(st.graph, st.table_ids, objects, 1)
    IN _add_foreign_key_objects(g2, st.table_ids, objects, 1)

\* ---------------------------------------------------------------------
\* rules/base.py
\* ---------------------------------------------------------------------
CRITICAL == "critical"
HIGH == "high"
MEDIUM == "medium"
LOW == "low"

DEFAULT_RULES == <<"R1", "R2", "R3", "R4", "R5", "R6", "R7">>

\* position of a RULE_ID in the order of the id strings
RuleNumber(r) ==
    CASE r = "R1" -> 1 [] r = "R2" -> 2 [] r = "R3" -> 3 [] r = "R4" -> 4
      [] r = "R5" -> 5 [] r = "R6" -> 6 [] r = "R7" -> 7

RULE_NAME(r) ==
    CASE r = "R1" -> "Table with dependencies removed"
      [] r = "R2" -> "Incompatible column type change"
      [] r = "R3" -> "Table taking part in foreign keys removed"
      [] r = "R4" -> "Integrity constraint removed"
      [] r = "R5" -> "Primary key modification"
      [] r = "R6" -> "Add NOT NULL without default"
      [] r = "R7" -> "Cyclic dependencies"

DEFAULT_LEVEL(r) ==
    CASE r \in {"R1", "R5", "R7"} -> CRITICAL
      [] r \in {"R2", "R3", "R4", "R6"} -> HIGH

MaxReportsPerRule == 100

\* BaseRule._init_config: the configuration of a rule built with no overrides
_init_config(r) ==
    [enabled |-> TRUE, level |-> DEFAULT_LEVEL(r),
     max_reports_per_rule |-> MaxReportsPerRule, include_details |-> TRUE]

get_info(r, config) ==
    [id |-> r, name |-> RULE_NAME(r), default_level |-> DEFAULT_LEVEL(r), config |-> config]

Returned(conflicts) == [raised |-> FALSE, conflicts |-> conflicts]
Raised == [raised |-> TRUE, conflicts |-> <<>>]

\* post_process_conflicts assigning rule, rule_name and level instead of
\* calling setdefault
post_process_conflicts_assigning(r, config, conflicts) ==
    IF conflicts = <<>> THEN <<>>
    ELSE LET original_total == Len(conflicts)
             max_reports == config.max_reports_per_rule
             trimmed_flag == original_total > max_reports
             trimmed == IF trimmed_flag THEN SubSeq(conflicts, 1, max_reports) ELSE conflicts
             Unify(c) ==
                 LET d == [rule |-> r, rule_name |-> RULE_NAME(r), level |-> config.level] @@ c
                 IN IF ~config.include_details
                    THEN [k \in DOMAIN d \ {"details"} |-> d[k]]
                    ELSE d
             unified == [i \in DOMAIN trimmed |-> Unify(trimmed[i])]
         IN IF trimmed_flag
            THEN Append(unified,
                        [rule |-> r, rule_name |-> RULE_NAME(r), level |-> LOW,
                         message |-> <<"conflicts found, first ones shown">>,
                         details |-> [total_conflicts |-> original_total,
                                      reported_conflicts |-> max_reports,
                                      rule |-> r]])
            ELSE unified

\* post_process_conflicts: the per-rule cap and the rule/rule_name/level defaults
post_process_conflicts(r, config, conflicts) ==
    IF conflicts = <<>> THEN <<>>
    ELSE LET original_total == Len(conflicts)
             max_reports == config.max_reports_per_rule
             trimmed_flag == original_total > max_reports
             trimmed == IF trimmed_flag THEN SubSeq(conflicts, 1, max_reports) ELSE conflicts
             Unify(c) ==
                 LET d == c @@ [rule |-> r, rule_name |-> RULE_NAME(r), level |-> config.level]
                 IN IF ~config.include_details
                    THEN [k \in DOMAIN d \ {"details"} |-> d[k]]
                    ELSE d
             unified == [i \in DOMAIN trimmed |-> Unify(trimmed[i])]
         IN IF trimmed_flag
            THEN Append(unified,
                        [rule |-> r, rule_name |-> RULE_NAME(r), level |-> LOW,
                         message |-> <<"conflicts found, first ones shown">>,
                         details |-> [total_conflicts |-> original_total,
                                      reported_conflicts |-> max_reports,
                                      rule |-> r]])
            ELSE unified

\* ---------------------------------------------------------------------
\* comparison/delta.py
\* ---------------------------------------------------------------------
modified_by_type(d, obj_type) ==
    SelectSeq(d.objects_modified, LAMBDA m : m.before.type = obj_type)

\* ---------------------------------------------------------------------
\* rules/rule_r1.py .. rule_r7.py
\* `it` is the order in which the set delta.objects_removed is iterated
\* ---------------------------------------------------------------------
\* the table a rule gets from get_table_of_object (a vertex made by the
\* builder has at most one Contains edge, so there is one possible result)
TableOf(g, obj) == CHOOSE t \in get_table_of_object(g, obj) : TRUE

RuleR1_incoming_refs(ga, table) ==
    {e \in ga.edges : e.relation = REFERENCES /\ e.dst = table.id /\ e.src # table.id}

\* R1 without the test of the object type: every removed object owned by a
\* referenced table is reported
RuleR1_apply_any_type(d, ga, gb, it) ==
    LET Keep(removed) ==
            /\ TableOf(ga, removed) # NoObject
            /\ RuleR1_incoming_refs(ga, TableOf(ga, removed)) # {}
        Make(removed) ==
            LET table == TableOf(ga, removed)
            IN [rule |-> "R1", level |-> DEFAULT_LEVEL("R1"),
                message |-> <<"Table", table.name, "removed but referenced in the base schema">>,
                details |-> [table |-> table.name,
                             incoming_refs |-> Cardinality(RuleR1_incoming_refs(ga, table))]]
        kept == SelectSeq(Iterate(d.objects_removed, it), Keep)
    IN Returned([i \in DOMAIN kept |-> Make(kept[i])])

RuleR1_apply(d, ga, gb, it) ==
    LET Keep(removed) ==
            /\ removed.type = TABLE
            /\ RuleR1_incoming_refs(ga, TableOf(ga, removed)) # {}
        Make(removed) ==
            LET table == TableOf(ga, removed)
            IN [rule |-> "R1", level |-> DEFAULT_LEVEL("R1"),
                message |-> <<"Table", table.name, "removed but referenced in the base schema">>,
                details |-> [table |-> table.name,
                             incoming_refs |-> Cardinality(RuleR1_incoming_refs(ga, table))]]
        kept == SelectSeq(Iterate(d.objects_removed, it), Keep)
    IN Returned([i \in DOMAIN kept |-> Make(kept[i])])

INCOMPATIBLE_TYPES ==
    {<<"TEXT", "INTEGER">>, <<"VARCHAR", "INTEGER">>, <<"NUMERIC", "INTEGER">>}

RuleR2_apply(d, ga, gb, it) ==
    LET old_type(mod) == Upper(IF "data_type" \in DOMAIN mod.before.attributes
                               THEN mod.before.attributes["data_type"] ELSE "")
        new_type(mod) == Upper(IF "data_type" \in DOMAIN mod.after.attributes
                               THEN mod.after.attributes["data_type"] ELSE "")
        Keep(mod) ==
            /\ "data_type" \in mod.changed_fields
            /\ old_type(mod) # "" /\ new_type(mod) # ""
            /\ <<old_type(mod), new_type(mod)>> \in INCOMPATIBLE_TYPES
            /\ TableOf(gb, mod.after) # NoObject
            /\ get_incoming(gb, TableOf(gb, mod.after), REFERENCES) # {}
        Make(mod) ==
            LET table_obj == TableOf(gb, mod.after)
            IN [rule |-> "R2", level |-> DEFAULT_LEVEL("R2"),
                message |-> <<"Incompatible type change of column", table_obj.name,
                              mod.after.name, old_type(mod), new_type(mod)>>,
                details |-> [table |-> table_obj.name, column |-> mod.after.name,
                             old_type |-> old_type(mod), new_type |-> new_type(mod),
                             incoming_references |->
                                 Cardinality(get_incoming(gb, table_obj, REFERENCES))]]
        kept == SelectSeq(modified_by_type(d, COLUMN), Keep)
    IN Returned([i \in DOMAIN kept |-> Make(kept[i])])

RuleR3_apply(d, ga, gb, it) ==
    LET incoming(obj) == get_incoming(ga, obj, REFERENCES)
        outgoing(obj) == get_outgoing(ga, obj, REFERENCES)
        Keep(obj) == obj.type = TABLE /\ (incoming(obj) # {} \/ outgoing(obj) # {})
        Make(obj) ==
            [rule |-> "R3", level |-> DEFAULT_LEVEL("R3"),
             message |-> <<"Removed table", obj.name, "took part in foreign keys">>,
             details |-> [table |-> obj.name,
                          incoming_refs |-> Cardinality(incoming(obj)),
                          outgoing_refs |-> Cardinality(outgoing(obj))]]
        kept == SelectSeq(Iterate(d.objects_removed, it), Keep)
    IN Returned([i \in DOMAIN kept |-> Make(kept[i])])

\* R4 with UNIQUE constraints left out of the kinds it reports
RuleR4_apply_without_unique(d, ga, gb, it) ==
    LET Keep(obj) == obj.type \in {PRIMARY_KEY, FOREIGN_KEY}
        Make(obj) ==
            [rule |-> "R4", level |-> DEFAULT_LEVEL("R4"),
             message |-> <<"Constraint removed", obj.name>>,
             details |-> [constraint |-> obj.name, type |-> obj.type,
                          table |-> IF Truthy(Get(obj.attributes, "table"))
                                    THEN Get(obj.attributes, "table")
                                    ELSE Get(obj.attributes, "from_table")]]
        kept == SelectSeq(Iterate(d.objects_removed, it), Keep)
    IN Returned([i \in DOMAIN kept |-> Make(kept[i])])

RuleR4_apply(d, ga, gb, it) ==
    LET Keep(obj) == obj.type \in {PRIMARY_KEY, UNIQUE_CONSTRAINT, FOREIGN_KEY}
        Make(obj) ==
            [rule |-> "R4", level |-> DEFAULT_LEVEL("R4"),
             message |-> <<"Constraint removed", obj.name>>,
             details |-> [constraint |-> obj.name, type |-> obj.type,
                          table |-> IF Truthy(Get(obj.attributes, "table"))
                                    THEN Get(obj.attributes, "table")
                                    ELSE Get(obj.attributes, "from_table")]]
        kept == SelectSeq(Iterate(d.objects_removed, it), Keep)
    IN Returned([i \in DOMAIN kept |-> Make(kept[i])])

\* R5 applied to the modified columns instead of the modified primary keys
RuleR5_apply_on_columns(d, ga, gb, it) ==
    LET Keep(mod) == TRUE
        Make(mod) ==
            [rule |-> "R5", level |-> DEFAULT_LEVEL("R5"),
             message |-> <<"Primary key of table", Get(mod.after.attributes, "table"),
                           "was modified">>,
             details |-> [table |-> Get(mod.after.attributes, "table")]]
        kept == SelectSeq(modified_by_type(d, COLUMN), Keep)
    IN Returned([i \in DOMAIN kept |-> Make(kept[i])])

RuleR5_apply(d, ga, gb, it) ==
    LET Keep(mod) == TRUE
        Make(mod) ==
            [rule |-> "R5", level |-> DEFAULT_LEVEL("R5"),
             message |-> <<"Primary key of table", Get(mod.after.attributes, "table"),
                           "was modified">>,
             details |-> [table |-> Get(mod.after.attributes, "table")]]
        kept == SelectSeq(modified_by_type(d, PRIMARY_KEY), Keep)
    IN Returned([i \in DOMAIN kept |-> Make(kept[i])])

\* R6 formats its conflict with mod.after.get_full_name(), a method no class
\* of core/models.py defines: building the first conflict raises AttributeError
RuleR6_apply(d, ga, gb, it) ==
    LET mods == modified_by_type(d, COLUMN)
        Hit(mod) ==
            /\ "is_nullable" \in mod.changed_fields
            /\ Get(mod.before.attributes, "is_nullable") = "True"
            /\ Get(mod.after.attributes, "is_nullable") = "False"
            /\ "default" \notin DOMAIN mod.after.attributes
    IN IF \E i \in DOMAIN mods : Hit(mods[i]) THEN Raised ELSE Returned(<<>>)

\* SchemaGraph has no find_cycles: hasattr(graph_b, "find_cycles") is false
\* and the list of cycles is empty
RuleR7_apply(d, ga, gb, it) == Returned(<<>>)

rule_apply(r, d, ga, gb, it) ==
    CASE r = "R1" -> RuleR1_apply(d, ga, gb, it)
      [] r = "R2" -> RuleR2_apply(d, ga, gb, it)
      [] r = "R3" -> RuleR3_apply(d, ga, gb, it)
      [] r = "R4" -> RuleR4_apply(d, ga, gb, it)
      [] r = "R5" -> RuleR5_apply(d, ga, gb, it)
      [] r = "R6" -> RuleR6_apply(d, ga, gb, it)
      [] r = "R7" -> RuleR7_apply(d, ga, gb, it)

\* ---------------------------------------------------------------------
\* rules/registry.py
\* `rules` is the dict _rules: RULE_ID -> the configuration of the instance
\* ---------------------------------------------------------------------
MaxTotalConflicts == 1000

\* RuleRegistry._init_defaults: the configuration of a registry built with
\* no overrides
_init_defaults == [rule_order |-> "by_id", max_total_conflicts |-> MaxTotalConflicts]

\* register_rules(DEFAULT_RULES) on a new registry
register_rules(ids) == [r \in ids |-> _init_config(r)]

get_enabled_rules(rules) == {r \in DOMAIN rules : rules[r].enabled}

\* the list get_enabled_rules returns: the enabled rules in the order the
\* dict _rules holds them, which is the order of registration
EnabledList(rules) ==
    SelectSeq(DEFAULT_RULES, LAMBDA r : r \in DOMAIN rules /\ rules[r].enabled)

\* sorted(list, key=...): ascending by key, equal keys keep their order
RECURSIVE StableSorted(_, _)
StableSorted(list, key) ==
    IF list = <<>> THEN <<>>
    ELSE LET i == CHOOSE k \in DOMAIN list :
                      \A j \in DOMAIN list :
                          \/ key[list[k]] < key[list[j]]
                          \/ key[list[k]] = key[list[j]] /\ k <= j
         IN <<list[i]>> \o
            StableSorted([k \in 1..(Len(list) - 1) |-> IF k < i THEN list[k] ELSE list[k + 1]],
                         key)

\* the rule list keeps the order it has
_order_rules_keeping_order(config, rules, list) == list

\* _order_rules: by_id, by_criticality, custom; any other value keeps the list
_order_rules(config, rules, list) ==
    LET order == IF "rule_order" \in DOMAIN config THEN config.rule_order ELSE "by_id"
        priority(level) ==
            CASE level = CRITICAL -> 0 [] level = HIGH -> 1
              [] level = MEDIUM -> 2 [] level = LOW -> 3 [] OTHER -> 99
        custom == IF "custom_order" \in DOMAIN config THEN config.custom_order ELSE <<>>
        \* {rid: i for i, rid in enumerate(custom)}: the last position of an id
        index(r) ==
            IF \E i \in DOMAIN custom : custom[i] = r
            THEN (CHOOSE i \in DOMAIN custom :
                      custom[i] = r /\ \A j \in DOMAIN custom : custom[j] = r => j <= i) - 1
            ELSE 10000
    IN CASE order = "by_id" ->
              StableSorted(list, [r \in Range(list) |-> RuleNumber(r)])
         [] order = "by_criticality" ->
              StableSorted(list, [r \in Range(list) |-> priority(rules[r].level)])
         [] order = "custom" ->
              StableSorted(list, [r \in Range(list) |-> index(r)])
         [] OTHER -> list

\* apply_one with the try around the whole loop instead of one rule: the
\* conflicts collected before the failing rule are lost
apply_one_losing_conflicts(acc, r, config, d, ga, gb, it) ==
    LET out == rule_apply(r, d, ga, gb, it)
        processed0 == post_process_conflicts(r, config, out.conflicts)
        processed == [i \in DOMAIN processed0 |->
                         [rule_info |-> get_info(r, config)] @@ processed0[i]]
    IN IF out.raised
       THEN [all_conflicts |-> <<>>,
             stats |-> Append(acc.stats,
                         [rule_id |-> r, rule_name |-> RULE_NAME(r), applied |-> FALSE,
                          error |-> "AttributeError", conflicts_found |-> 0])]
       ELSE [all_conflicts |-> acc.all_conflicts \o processed,
             stats |-> Append(acc.stats,
                         [rule_id |-> r, rule_name |-> RULE_NAME(r), applied |-> TRUE,
                          conflicts_found |-> Len(processed),
                          details |-> [total_raw |-> Len(out.conflicts),
                                       total_reported |-> Len(processed)]])]

\* one turn of the loop of apply_all: the rule is applied inside try/except
apply_one(acc, r, config, d, ga, gb, it) ==
    LET out == rule_apply(r, d, ga, gb, it)
        processed0 == post_process_conflicts(r, config, out.conflicts)
        processed == [i \in DOMAIN processed0 |->
                         [rule_info |-> get_info(r, config)] @@ processed0[i]]
    IN IF out.raised
       THEN [all_conflicts |-> acc.all_conflicts,
             stats |-> Append(acc.stats,
                         [rule_id |-> r, rule_name |-> RULE_NAME(r), applied |-> FALSE,
                          error |-> "AttributeError", conflicts_found |-> 0])]
       ELSE [all_conflicts |-> acc.all_conflicts \o processed,
             stats |-> Append(acc.stats,
                         [rule_id |-> r, rule_name |-> RULE_NAME(r), applied |-> TRUE,
                          conflicts_found |-> Len(processed),
                          details |-> [total_raw |-> Len(out.conflicts),
                                       total_reported |-> Len(processed)]])]

RECURSIVE ApplyOrdered(_, _, _, _, _, _, _, _)
ApplyOrdered(acc, ordered, i, rules, d, ga, gb, it) ==
    IF i > Len(ordered) THEN acc
    ELSE ApplyOrdered(apply_one(acc, ordered[i], rules[ordered[i]], d, ga, gb, it),
                      ordered, i + 1, rules, d, ga, gb, it)

\* apply_all with summary.total_conflicts taken before the global limit
apply_all_counting_before_limit(config, rules, d, ga, gb, it) ==
    IF DOMAIN rules = {}
    THEN [conflicts |-> <<>>, statistics |-> <<>>, summary |-> [total_conflicts |-> 0]]
    ELSE LET enabled == get_enabled_rules(rules)
             ordered == _order_rules(config, rules, EnabledList(rules))
             acc == ApplyOrdered([all_conflicts |-> <<>>, stats |-> <<>>],
                                 ordered, 1, rules, d, ga, gb, it)
             original_total == Len(acc.all_conflicts)
             trimmed ==
                 IF original_total > config.max_total_conflicts
                 THEN Append(SubSeq(acc.all_conflicts, 1, config.max_total_conflicts),
                             [rule |-> "SYSTEM", rule_name |-> "System limiter",
                              level |-> LOW,
                              message |-> <<"conflicts found, first ones shown">>,
                              details |-> [total_conflicts |-> original_total,
                                           reported_conflicts |->
                                               config.max_total_conflicts]])
                 ELSE acc.all_conflicts
         IN [conflicts |-> trimmed,
             statistics |-> acc.stats,
             summary |-> [total_conflicts |-> original_total,
                          total_rules |-> Cardinality(DOMAIN rules),
                          enabled_rules |-> Cardinality(enabled)]]

apply_all(config, rules, d, ga, gb, it) ==
    IF DOMAIN rules = {}
    THEN [conflicts |-> <<>>, statistics |-> <<>>, summary |-> [total_conflicts |-> 0]]
    ELSE LET enabled == get_enabled_rules(rules)
             ordered == _order_rules(config, rules, EnabledList(rules))
             acc == ApplyOrdered([all_conflicts |-> <<>>, stats |-> <<>>],
                                 ordered, 1, rules, d, ga, gb, it)
             original_total == Len(acc.all_conflicts)
             trimmed ==
                 IF original_total > config.max_total_conflicts
                 THEN Append(SubSeq(acc.all_conflicts, 1, config.max_total_conflicts),
                             [rule |-> "SYSTEM", rule_name |-> "System limiter",
                              level |-> LOW,
                              message |-> <<"conflicts found, first ones shown">>,
                              details |-> [total_conflicts |-> original_total,
                                           reported_conflicts |->
                                               config.max_total_conflicts]])
                 ELSE acc.all_conflicts
         IN [conflicts |-> trimmed,
             statistics |-> acc.stats,
             summary |-> [total_conflicts |-> Len(trimmed),
                          total_rules |-> Cardinality(DOMAIN rules),
                          enabled_rules |-> Cardinality(enabled)]]

NoResult == [conflicts |-> <<>>, statistics |-> <<>>, summary |-> [total_conflicts |-> 0]]

\* ---------------------------------------------------------------------
\* detection/orchestrator.py
\* ---------------------------------------------------------------------
MaxConflicts == 100

CountLevel(conflicts, lvl) ==
    Cardinality({i \in DOMAIN conflicts :
                    "level" \in DOMAIN conflicts[i] /\ Lower(conflicts[i].level) = lvl})

_generate_report(res, d, ga, gb) ==
    LET conflicts == [i \in DOMAIN res.conflicts |->
                         IF "level" \in DOMAIN res.conflicts[i]
                         THEN [res.conflicts[i] EXCEPT !.level = Lower(@)]
                         ELSE res.conflicts[i]]
        conflicts_limited == SubSeq(conflicts, 1, Min(Len(conflicts), MaxConflicts))
        has_critical == CountLevel(conflicts, CRITICAL) > 0
    IN [metadata |-> [tool |-> "PostgreSQL Migration Conflict Detector"],
        summary |-> [has_conflicts |-> Len(conflicts) > 0,
                     has_critical_conflicts |-> has_critical,
                     total_conflicts |-> Len(conflicts),
                     critical_conflicts |-> CountLevel(conflicts, CRITICAL),
                     high_conflicts |-> CountLevel(conflicts, HIGH),
                     medium_conflicts |-> CountLevel(conflicts, MEDIUM),
                     low_conflicts |-> CountLevel(conflicts, LOW),
                     merge_blocked |-> has_critical],
        conflicts |-> conflicts_limited,
        analysis |-> [rules_applied |-> Len(res.statistics)]]

\* _generate_error_report with the synthetic conflict reported as High and the
\* merge left unblocked
_generate_error_report_high(error_message) ==
    [metadata |-> [status |-> "ERROR"],
     error |-> [message |-> error_message, type |-> "ProcessingError"],
     summary |-> [has_conflicts |-> TRUE,
                  has_critical_conflicts |-> FALSE,
                  total_conflicts |-> 1,
                  critical_conflicts |-> 0,
                  high_conflicts |-> 1,
                  medium_conflicts |-> 0,
                  low_conflicts |-> 0,
                  merge_blocked |-> FALSE],
     conflicts |-> <<[rule |-> "SYSTEM", level |-> "high",
                      message |-> <<"Processing error">> \o error_message,
                      details |-> [error_type |-> "system_error"]]>>,
     analysis |-> <<>>]

_generate_error_report(error_message) ==
    [metadata |-> [status |-> "ERROR"],
     error |-> [message |-> error_message, type |-> "ProcessingError"],
     summary |-> [has_conflicts |-> TRUE,
                  has_critical_conflicts |-> TRUE,
                  total_conflicts |-> 1,
                  critical_conflicts |-> 1,
                  high_conflicts |-> 0,
                  medium_conflicts |-> 0,
                  low_conflicts |-> 0,
                  merge_blocked |-> TRUE],
     conflicts |-> <<[rule |-> "SYSTEM", level |-> "critical",
                      message |-> <<"Processing error">> \o error_message,
                      details |-> [error_type |-> "system_error"]]>>,
     analysis |-> <<>>]

NoReport == [metadata |-> [status |-> "NONE"]]

\* _parse_schema: the objects of the statements, or the statement that raised
RECURSIVE _parse_schema(_)
_parse_schema(statements) ==
    IF statements = <<>> THEN [raised |-> FALSE, objects |-> <<>>, error |-> <<>>]
    ELSE LET stmt == Head(statements)
         IN IF parse_to_objects_raises(stmt)
            THEN [raised |-> TRUE, objects |-> <<>>,
                  error |-> <<"[PARSING_ERROR] Cannot parse CREATE TABLE", stmt.text>>]
            ELSE LET rest == _parse_schema(Rest(statements))
                 IN IF rest.raised THEN rest
                    ELSE [rest EXCEPT !.objects = parse_to_objects(stmt) \o @]

\* ---------------------------------------------------------------------
\* State
\* ---------------------------------------------------------------------
\* pc           the stage the run is at
\* iteration    the order in which this process iterates its sets of objects
\* sql_a, sql_b the statements of the two schema texts given to detect
\* objects_a/b  the object lists given to GraphBuilder.build_from_objects
\* rules        RuleRegistry._rules
\* result       the value returned by RuleRegistry.apply_all
\* report       the value returned by MigrationConflictDetector.detect
\* caught       the message of the exception caught by detect, <<>> if none
\* config       RuleRegistry.config
\* run          "first" or "second": which call of detect this is
\* first_report the report returned by the first call of detect
VARIABLES pc, iteration, sql_a, sql_b, objects_a, objects_b, graph_a, graph_b,
          delta, match_result, strict, rules, result, report, caught,
          config, run, first_report,
          sql_text, pos, line, col, tokens, scan,
          normalized, heap, schema_graph, added, edge_calls, dependents, call

vars == <<pc, iteration, sql_a, sql_b, objects_a, objects_b, graph_a, graph_b,
          delta, match_result, strict, rules, result, report, caught,
          config, run, first_report,
          sql_text, pos, line, col, tokens, scan,
          normalized, heap, schema_graph, added, edge_calls, dependents, call>>

session_vars == <<config, run, first_report>>

\* the locals of SQLTokenizer.tokenize
tokenizer_vars == <<sql_text, pos, line, col, tokens, scan>>

\* a SchemaGraph whose vertices are references to objects of the heap, the
\* calls made on it and their outcomes
MaxObjects == 3
MaxCalls == 3
MaxEdges == 2

ObjectRefs == 1..MaxObjects

\* the objects a caller holds before any of them is put into a graph: one
\* table and columns that share (type, schema, name); id is not assigned yet
NewObjects ==
    [r \in ObjectRefs |->
        IF r = 1 THEN DatabaseObject(0, TABLE, "t", "public", EmptyDict)
        ELSE DatabaseObject(0, COLUMN, "id", "public", EmptyDict)]

\* transitive_dependents has not been called
NoDependents == [called |-> FALSE, obj |-> 0, relations |-> {}, result |-> {}]

graph_library_vars == <<heap, schema_graph, added, edge_calls, dependents>>

\* the state of the library objects that are used on their own
\* no library function has been called
NoCall == [op |-> "idle"]

library_vars == <<normalized, graph_library_vars, call>>

\* no call on these objects has been made
LibraryIdle ==
    /\ normalized = <<>>
    /\ heap = NewObjects
    /\ schema_graph = [next_id |-> 1, vertices |-> <<>>, edges |-> <<>>]
    /\ added = <<>>
    /\ edge_calls = <<>>
    /\ dependents = NoDependents
    /\ call = NoCall

\* no tokenize call is in progress
TokenizerIdle ==
    /\ sql_text = <<>>
    /\ pos = 0
    /\ line = 1
    /\ col = 1
    /\ tokens = <<>>
    /\ scan = "idle"

input_vars == <<sql_a, sql_b, objects_a, objects_b>>
graph_vars == <<graph_a, graph_b>>
match_vars == <<match_result, strict>>
output_vars == <<result, report, caught>>

NoDelta == [objects_added |-> {}, objects_removed |-> {}, objects_modified |-> <<>>,
            edges_added |-> {}, edges_removed |-> {}]

\* sequences over S of length at most n
SeqUpTo(S, n) == UNION {[1..k -> S] : k \in 0..n}

\* ---------------------------------------------------------------------
\* Comparing and matching graphs assembled vertex by vertex
\* ---------------------------------------------------------------------
\* objects a caller can hand to add_vertex
ObjectPool ==
    { DatabaseObject(0, COLUMN, "id", "public", [table |-> "users"]),
      DatabaseObject(0, COLUMN, "id", "public", [table |-> "orders"]),
      DatabaseObject(0, COLUMN, "id", "public", [table |-> "users", default |-> None]),
      DatabaseObject(0, COLUMN, "ID", "public", [table |-> "users"]),
      DatabaseObject(0, PRIMARY_KEY, "pk", "public", [table |-> "users"]),
      DatabaseObject(0, PRIMARY_KEY, "pk", "public", [table |-> "orders"]) }

InitCompare ==
    /\ pc = "assemble"
    /\ iteration = "asc"
    /\ sql_a = <<>> /\ sql_b = <<>>
    /\ objects_a = <<>> /\ objects_b = <<>>
    /\ graph_a = SchemaGraph
    /\ graph_b = SchemaGraph
    /\ delta = NoDelta
    /\ match_result = NoMatch
    /\ strict = TRUE
    /\ rules = register_rules(Range(DEFAULT_RULES))
    /\ result = NoResult
    /\ report = NoReport
    /\ caught = <<>>
    /\ config = _init_defaults
    /\ run = "first"
    /\ first_report = NoReport
    /\ TokenizerIdle
    /\ LibraryIdle

AddVertexA ==
    /\ pc = "assemble"
    /\ Cardinality(DOMAIN graph_a.vertices) < MaxVertices
    /\ \E obj \in ObjectPool : graph_a' = add_vertex(graph_a, obj)
    /\ UNCHANGED <<pc, iteration, graph_b, delta, rules>>
    /\ UNCHANGED <<input_vars, match_vars, session_vars, tokenizer_vars, library_vars, output_vars>>

AddVertexB ==
    /\ pc = "assemble"
    /\ Cardinality(DOMAIN graph_b.vertices) < MaxVertices
    /\ \E obj \in ObjectPool : graph_b' = add_vertex(graph_b, obj)
    /\ UNCHANGED <<pc, iteration, graph_a, delta, rules>>
    /\ UNCHANGED <<input_vars, match_vars, session_vars, tokenizer_vars, library_vars, output_vars>>

\* GraphComparator.compare on the assembled graphs
Compare ==
    /\ pc = "assemble"
    /\ \E it \in IterationOrders :
         /\ iteration' = it
         /\ delta' \in compare(graph_a, graph_b, it)
    /\ pc' = "compared"
    /\ UNCHANGED <<graph_vars, rules, input_vars, match_vars, session_vars, tokenizer_vars, library_vars, output_vars>>

\* VertexMatcher.match on the assembled graphs
Match ==
    /\ pc = "compared"
    /\ \E s \in BOOLEAN :
         /\ strict' = s
         /\ match_result' = match(graph_a, graph_b, s, FALSE)
    /\ pc' = "matched"
    /\ UNCHANGED <<iteration, graph_vars, delta, rules, input_vars, output_vars,
                   session_vars, tokenizer_vars, library_vars>>

NextCompare == AddVertexA \/ AddVertexB \/ Compare \/ Match

SpecCompare == InitCompare /\ [][NextCompare]_vars

\* ---------------------------------------------------------------------
\* VertexMatcher({"enable_experimental_matching": True, "strict_keys": ...})
\* on graphs assembled vertex by vertex
\* ---------------------------------------------------------------------
MatchExperimentally ==
    /\ pc = "assemble"
    /\ \E s \in BOOLEAN :
         /\ strict' = s
         /\ match_result' = match(graph_a, graph_b, s, TRUE)
    /\ pc' = "matched"
    /\ UNCHANGED <<iteration, graph_vars, delta, rules, input_vars, output_vars,
                   session_vars, tokenizer_vars, library_vars>>

NextMatch == AddVertexA \/ AddVertexB \/ MatchExperimentally

SpecMatch == InitCompare /\ [][NextMatch]_vars

\* ---------------------------------------------------------------------
\* MigrationConflictDetector.detect(sql_a, sql_b)
\* ---------------------------------------------------------------------
MaxStatements == 2

StmtUsers ==
    CreateTable("CREATE TABLE users (id INTEGER PRIMARY KEY);", "public", "users",
        <<ColumnElement("id INTEGER PRIMARY KEY", "id", "INTEGER",
                        TRUE, FALSE, FALSE, FALSE)>>)

StmtOrders ==
    CreateTable("CREATE TABLE orders (id INTEGER, user_id INTEGER REFERENCES users (id));",
        "public", "orders",
        <<ColumnElement("id INTEGER", "id", "INTEGER", FALSE, FALSE, FALSE, FALSE),
          WithReferences(
              ColumnElement("user_id INTEGER REFERENCES users (id)", "user_id", "INTEGER",
                            FALSE, FALSE, FALSE, FALSE),
              "REFERENCES users (id)", "public", "users", "id")>>)

StmtUsersTwoKeys ==
    CreateTable("CREATE TABLE users (id INTEGER PRIMARY KEY, code INTEGER PRIMARY KEY);",
        "public", "users",
        <<ColumnElement("id INTEGER PRIMARY KEY", "id", "INTEGER",
                        TRUE, FALSE, FALSE, FALSE),
          ColumnElement("code INTEGER PRIMARY KEY", "code", "INTEGER",
                        TRUE, FALSE, FALSE, FALSE)>>)

StmtMalformed == OtherStatement("malformed", "CREATE TABLE (id INTEGER);")

StatementPool == {StmtUsers, StmtOrders, StmtUsersTwoKeys, StmtMalformed}

\* versions of a table users with a column email
StmtEmail ==
    CreateTable("CREATE TABLE users (id INTEGER PRIMARY KEY, email TEXT);",
        "public", "users",
        <<ColumnElement("id INTEGER PRIMARY KEY", "id", "INTEGER",
                        TRUE, FALSE, FALSE, FALSE),
          ColumnElement("email TEXT", "email", "TEXT", FALSE, FALSE, FALSE, FALSE)>>)

StmtEmailNotNull ==
    CreateTable("CREATE TABLE users (id INTEGER PRIMARY KEY, email TEXT NOT NULL);",
        "public", "users",
        <<ColumnElement("id INTEGER PRIMARY KEY", "id", "INTEGER",
                        TRUE, FALSE, FALSE, FALSE),
          ColumnElement("email TEXT NOT NULL", "email", "TEXT",
                        FALSE, FALSE, TRUE, FALSE)>>)

StmtEmailNotNullDefault ==
    CreateTable(
        "CREATE TABLE users (id INTEGER PRIMARY KEY, email TEXT NOT NULL DEFAULT 'x');",
        "public", "users",
        <<ColumnElement("id INTEGER PRIMARY KEY", "id", "INTEGER",
                        TRUE, FALSE, FALSE, FALSE),
          ColumnElement("email TEXT NOT NULL DEFAULT 'x'", "email", "TEXT",
                        FALSE, FALSE, TRUE, TRUE)>>)

\* users with the primary key moved from id to email, and id made unique
StmtKeyMoved ==
    CreateTable("CREATE TABLE users (id INTEGER UNIQUE, email TEXT PRIMARY KEY);",
        "public", "users",
        <<ColumnElement("id INTEGER UNIQUE", "id", "INTEGER",
                        FALSE, TRUE, FALSE, FALSE),
          ColumnElement("email TEXT PRIMARY KEY", "email", "TEXT",
                        TRUE, FALSE, FALSE, FALSE)>>)

ColumnStatementPool == {StmtEmail, StmtEmailNotNull, StmtEmailNotNullDefault, StmtKeyMoved}

\* two tables that reference each other
StmtA ==
    CreateTable("CREATE TABLE a (id INTEGER, b_id INTEGER REFERENCES b (id));",
        "public", "a",
        <<ColumnElement("id INTEGER", "id", "INTEGER", FALSE, FALSE, FALSE, FALSE),
          WithReferences(
              ColumnElement("b_id INTEGER REFERENCES b (id)", "b_id", "INTEGER",
                            FALSE, FALSE, FALSE, FALSE),
              "REFERENCES b (id)", "public", "b", "id")>>)

StmtB ==
    CreateTable("CREATE TABLE b (id INTEGER, a_id INTEGER REFERENCES a (id));",
        "public", "b",
        <<ColumnElement("id INTEGER", "id", "INTEGER", FALSE, FALSE, FALSE, FALSE),
          WithReferences(
              ColumnElement("a_id INTEGER REFERENCES a (id)", "a_id", "INTEGER",
                            FALSE, FALSE, FALSE, FALSE),
              "REFERENCES a (id)", "public", "a", "id")>>)

CycleStatementPool == {StmtA, StmtB}

\* the two schema texts of a run are written over one of these pools
StatementPools == {StatementPool, ColumnStatementPool, CycleStatementPool}

Stages == {"parse", "build", "compare", "apply", "report"}

Init ==
    /\ pc = "parse"
    /\ iteration = "asc"
    /\ \E pool \in StatementPools :
         /\ sql_a \in SeqUpTo(pool, MaxStatements)
         /\ sql_b \in SeqUpTo(pool, MaxStatements)
    /\ objects_a = <<>> /\ objects_b = <<>>
    /\ graph_a = SchemaGraph
    /\ graph_b = SchemaGraph
    /\ delta = NoDelta
    /\ match_result = NoMatch
    /\ strict = TRUE
    /\ rules = register_rules(Range(DEFAULT_RULES))
    /\ result = NoResult
    /\ report = NoReport
    /\ caught = <<>>
    /\ config = _init_defaults
    /\ run = "first"
    /\ first_report = NoReport
    /\ TokenizerIdle
    /\ LibraryIdle

\* stage 1: both texts are parsed; a ParsingError ends detect in its except branch
ParseSchemas ==
    /\ pc = "parse"
    /\ LET pa == _parse_schema(sql_a)
           pb == _parse_schema(sql_b)
           e == IF pa.raised THEN pa.error ELSE pb.error
       IN IF pa.raised \/ pb.raised
          THEN /\ caught' = e
               /\ report' = _generate_error_report(e)
               /\ pc' = "done"
               /\ UNCHANGED <<objects_a, objects_b>>
          ELSE /\ objects_a' = pa.objects
               /\ objects_b' = pb.objects
               /\ pc' = "build"
               /\ UNCHANGED <<report, caught>>
    /\ UNCHANGED <<iteration, sql_a, sql_b, graph_vars, delta, match_vars, session_vars, tokenizer_vars, library_vars, rules, result>>

\* stage 2: GraphBuilder.build_from_objects on both object lists
BuildGraphs ==
    /\ pc = "build"
    /\ graph_a' = build_from_objects(objects_a)
    /\ graph_b' = build_from_objects(objects_b)
    /\ pc' = "compare"
    /\ UNCHANGED <<iteration, input_vars, delta, match_vars, session_vars, tokenizer_vars, library_vars, rules, output_vars>>

\* stage 3: GraphComparator.compare
CompareGraphs ==
    /\ pc = "compare"
    /\ \E it \in IterationOrders :
         /\ iteration' = it
         /\ delta' \in compare(graph_a, graph_b, it)
    /\ pc' = "apply"
    /\ UNCHANGED <<input_vars, graph_vars, match_vars, session_vars, tokenizer_vars, library_vars, rules, output_vars>>

\* stage 4 with rules that take the removed objects out of the Delta they read
ApplyRules_consuming_delta ==
    /\ pc = "apply"
    /\ result' = apply_all(config, rules, delta, graph_a, graph_b, iteration)
    /\ delta' = [delta EXCEPT !.objects_removed = {}]
    /\ pc' = "report"
    /\ UNCHANGED <<iteration, input_vars, graph_vars, match_vars, session_vars, tokenizer_vars, library_vars, rules,
                   report, caught>>

\* stage 4: RuleRegistry.apply_all
ApplyRules ==
    /\ pc = "apply"
    /\ result' = apply_all(config, rules, delta, graph_a, graph_b, iteration)
    /\ pc' = "report"
    /\ UNCHANGED <<iteration, input_vars, graph_vars, delta, match_vars, session_vars, tokenizer_vars, library_vars, rules,
                   report, caught>>

\* stage 5: _generate_report; detect returns the report
GenerateReport ==
    /\ pc = "report"
    /\ report' = _generate_report(result, delta, graph_a, graph_b)
    /\ pc' = "done"
    /\ UNCHANGED <<iteration, input_vars, graph_vars, delta, match_vars, session_vars, tokenizer_vars, library_vars, rules,
                   result, caught>>

\* the except branch of detect: an exception escaping the stage the run is at
\* (one the stage does not raise by itself, such as MemoryError or
\* RecursionError) is caught and detect returns the error report
UnexpectedException ==
    /\ pc \in Stages
    /\ caught' = <<"unexpected exception in stage", pc>>
    /\ report' = _generate_error_report(caught')
    /\ pc' = "done"
    /\ UNCHANGED <<iteration, input_vars, graph_vars, delta, match_vars, session_vars, tokenizer_vars, library_vars, rules, result>>

Next ==
    \/ ParseSchemas
    \/ BuildGraphs
    \/ CompareGraphs
    \/ ApplyRules
    \/ GenerateReport
    \/ UnexpectedException

Spec == Init /\ [][Next]_vars

\* ---------------------------------------------------------------------
\* A detector built with a configuration: MigrationConflictDetector(config)
\* hands config["rules"] to RuleRegistry, whose __init__ updates its defaults
\* with it
\* ---------------------------------------------------------------------
MaxCap == 1

RuleRegistry_init(overrides) == overrides @@ _init_defaults

InitConfigured ==
    /\ pc = "parse"
    /\ iteration = "asc"
    /\ sql_a \in SeqUpTo(ColumnStatementPool, MaxStatements)
    /\ sql_b \in SeqUpTo(ColumnStatementPool, MaxStatements)
    /\ objects_a = <<>> /\ objects_b = <<>>
    /\ graph_a = SchemaGraph
    /\ graph_b = SchemaGraph
    /\ delta = NoDelta
    /\ match_result = NoMatch
    /\ strict = TRUE
    /\ rules = register_rules(Range(DEFAULT_RULES))
    /\ result = NoResult
    /\ report = NoReport
    /\ caught = <<>>
    /\ \E cap \in 0..MaxCap : config = RuleRegistry_init([max_total_conflicts |-> cap])
    /\ run = "first"
    /\ first_report = NoReport
    /\ TokenizerIdle
    /\ LibraryIdle

SpecConfigured == InitConfigured /\ [][Next]_vars

\* ---------------------------------------------------------------------
\* detect called a second time with the same two texts. The registry (rules,
\* config) and the graph the builder holds stay as the first call left them;
\* the locals of detect start anew.
\* ---------------------------------------------------------------------
\* a second call after a first one that left rule R5 disabled
DetectAgain_disabling_rule ==
    /\ pc = "done"
    /\ run = "first"
    /\ first_report' = report
    /\ run' = "second"
    /\ pc' = "parse"
    /\ objects_a' = <<>> /\ objects_b' = <<>>
    /\ delta' = NoDelta
    /\ result' = NoResult
    /\ report' = NoReport
    /\ caught' = <<>>
    /\ rules' = [rules EXCEPT !["R5"].enabled = FALSE]
    /\ UNCHANGED <<iteration, sql_a, sql_b, graph_vars, match_vars, config, tokenizer_vars, library_vars>>

DetectAgain ==
    /\ pc = "done"
    /\ run = "first"
    /\ first_report' = report
    /\ run' = "second"
    /\ pc' = "parse"
    /\ objects_a' = <<>> /\ objects_b' = <<>>
    /\ delta' = NoDelta
    /\ result' = NoResult
    /\ report' = NoReport
    /\ caught' = <<>>
    /\ UNCHANGED <<iteration, sql_a, sql_b, graph_vars, match_vars, rules, config, tokenizer_vars, library_vars>>

NextTwice == Next \/ DetectAgain

SpecTwice == Init /\ [][NextTwice]_vars

\* ---------------------------------------------------------------------
\* The library used without the parser: object lists built by the caller,
\* rules switched off through BaseRule.disable
\* ---------------------------------------------------------------------
MaxTables == 2
MaxDisabled == 1

ApiUsers ==
    Table("users", "public",
          <<Column("id", "users", "public", "INTEGER", TRUE, [is_primary_key |-> "True"])>>,
          [foreign_keys |-> <<>>])

\* users after a migration: id becomes VARCHAR NOT NULL and is no longer the key
ApiUsersChanged ==
    Table("users", "public",
          <<Column("id", "users", "public", "VARCHAR", FALSE, EmptyDict)>>,
          [foreign_keys |-> <<>>])

ApiOrders ==
    Table("orders", "public",
          <<Column("user_id", "orders", "public", "INTEGER", TRUE, EmptyDict)>>,
          [foreign_keys |-> <<[column |-> "user_id", referenced_table |-> "users",
                               referenced_column |-> "id"]>>])

TablePool == {ApiUsers, ApiUsersChanged, ApiOrders}

InitApi ==
    /\ pc = "build"
    /\ iteration = "asc"
    /\ sql_a = <<>> /\ sql_b = <<>>
    /\ objects_a \in SeqUpTo(TablePool, MaxTables)
    /\ objects_b \in SeqUpTo(TablePool, MaxTables)
    /\ graph_a = SchemaGraph
    /\ graph_b = SchemaGraph
    /\ delta = NoDelta
    /\ match_result = NoMatch
    /\ strict = TRUE
    /\ rules = register_rules(Range(DEFAULT_RULES))
    /\ result = NoResult
    /\ report = NoReport
    /\ caught = <<>>
    /\ config = _init_defaults
    /\ run = "first"
    /\ first_report = NoReport
    /\ TokenizerIdle
    /\ LibraryIdle

\* BaseRule.disable on a registered rule, before the rules are applied
DisableRule ==
    /\ pc = "apply"
    /\ Cardinality({r \in DOMAIN rules : ~rules[r].enabled}) < MaxDisabled
    /\ \E r \in DOMAIN rules :
         /\ rules[r].enabled
         /\ rules' = [rules EXCEPT ![r].enabled = FALSE]
    /\ UNCHANGED <<pc, iteration, input_vars, graph_vars, delta, match_vars, session_vars, tokenizer_vars, library_vars, output_vars>>

NextApi == BuildGraphs \/ CompareGraphs \/ DisableRule \/ ApplyRules

SpecApi == InitApi /\ [][NextApi]_vars

\* ---------------------------------------------------------------------
\* A registry built with a rule order and per-rule settings:
\* RuleRegistry({"rule_order": ..., "custom_order": [...], "rules": {...}})
\* ---------------------------------------------------------------------
\* register_rule with the settings the registry configuration holds for the rule
register_rules_configured(registry_config, ids) ==
    [r \in ids |->
        (IF "rules" \in DOMAIN registry_config /\ r \in DOMAIN registry_config.rules
         THEN registry_config.rules[r] ELSE EmptyDict) @@ _init_config(r)]

RuleOrders == {"by_id", "by_criticality", "custom"}

\* lists for custom_order: each names some of the rules, one an unknown id
CustomOrders == {<<"R5", "R4">>, <<"R7", "R9", "R3", "R1">>}

\* config["rules"]: nothing, or a level for one rule
LevelOverrides ==
    {EmptyDict, [R4 |-> [level |-> CRITICAL]], [R1 |-> [level |-> LOW]],
     [R3 |-> [level |-> MEDIUM]]}

RegistryConfigs ==
    {RuleRegistry_init([rule_order |-> o, rules |-> lv]) :
        o \in RuleOrders \ {"custom"}, lv \in LevelOverrides}
    \cup {RuleRegistry_init([rule_order |-> "custom", custom_order |-> c, rules |-> lv]) :
             c \in CustomOrders, lv \in LevelOverrides}

InitOrdered ==
    /\ pc = "build"
    /\ iteration = "asc"
    /\ sql_a = <<>> /\ sql_b = <<>>
    /\ objects_a \in SeqUpTo(TablePool, MaxTables)
    /\ objects_b \in SeqUpTo(TablePool, MaxTables)
    /\ graph_a = SchemaGraph
    /\ graph_b = SchemaGraph
    /\ delta = NoDelta
    /\ match_result = NoMatch
    /\ strict = TRUE
    /\ config \in RegistryConfigs
    /\ rules = register_rules_configured(config, Range(DEFAULT_RULES))
    /\ result = NoResult
    /\ report = NoReport
    /\ caught = <<>>
    /\ run = "first"
    /\ first_report = NoReport
    /\ TokenizerIdle
    /\ LibraryIdle

SpecOrdered == InitOrdered /\ [][NextApi]_vars

\* ---------------------------------------------------------------------
\* BaseRule.post_process_conflicts called on the list a rule returned
\* ---------------------------------------------------------------------
MaxReports == 2
MaxRaw == 3

\* records a rule may return: one that sets nothing but its message, one
\* that sets rule, level and details, one that sets rule_name
RawConflictPool ==
    {[message |-> <<"m">>],
     [rule |-> "R4", level |-> CRITICAL, message |-> <<"m">>, details |-> [table |-> "users"]],
     [rule_name |-> "own name", message |-> <<"m">>]}

\* the configurations of the rule instance
RuleConfigs(r) ==
    {[_init_config(r) EXCEPT !.max_reports_per_rule = n, !.include_details = det] :
        n \in 0..MaxReports, det \in BOOLEAN}

InitPostProcess ==
    /\ pc = "idle"
    /\ iteration = "asc"
    /\ sql_a = <<>> /\ sql_b = <<>>
    /\ objects_a = <<>> /\ objects_b = <<>>
    /\ graph_a = SchemaGraph
    /\ graph_b = SchemaGraph
    /\ delta = NoDelta
    /\ match_result = NoMatch
    /\ strict = TRUE
    /\ rules = register_rules(Range(DEFAULT_RULES))
    /\ result = NoResult
    /\ report = NoReport
    /\ caught = <<>>
    /\ config = _init_defaults
    /\ run = "first"
    /\ first_report = NoReport
    /\ TokenizerIdle
    /\ LibraryIdle

\* rule.post_process_conflicts(conflicts)
PostProcess ==
    /\ call = NoCall
    /\ \E r \in {"R2", "R4"} :
         \E rule_config \in RuleConfigs(r), conflicts \in SeqUpTo(RawConflictPool, MaxRaw) :
            call' = [op |-> "post_process_conflicts", rule |-> r, config |-> rule_config,
                     conflicts |-> conflicts,
                     returned |-> post_process_conflicts(r, rule_config, conflicts)]
    /\ UNCHANGED <<normalized, graph_library_vars, pc, iteration, input_vars, graph_vars,
                   delta, match_vars, session_vars, tokenizer_vars, rules, output_vars>>

NextPostProcess == PostProcess

SpecPostProcess == InitPostProcess /\ [][NextPostProcess]_vars

\* ---------------------------------------------------------------------
\* parser/tokenizer.py
\* A text is a sequence of characters (strings of length one); positions
\* are counted from 0 as in the code, so the character at position p is
\* text[p + 1].
\* ---------------------------------------------------------------------
MaxLen == 3

KEYWORDS == {
    <<"C", "R", "E", "A", "T", "E">>, <<"A", "L", "T", "E", "R">>, <<"D", "R", "O", "P">>,
    <<"T", "A", "B", "L", "E">>, <<"S", "C", "H", "E", "M", "A">>,
    <<"C", "O", "L", "U", "M", "N">>, <<"C", "O", "N", "S", "T", "R", "A", "I", "N", "T">>,
    <<"P", "R", "I", "M", "A", "R", "Y">>, <<"K", "E", "Y">>,
    <<"F", "O", "R", "E", "I", "G", "N">>,
    <<"R", "E", "F", "E", "R", "E", "N", "C", "E", "S">>, <<"U", "N", "I", "Q", "U", "E">>,
    <<"C", "H", "E", "C", "K">>, <<"D", "E", "F", "A", "U", "L", "T">>, <<"N", "O", "T">>,
    <<"N", "U", "L", "L">>, <<"A", "D", "D">>, <<"R", "E", "N", "A", "M", "E">>, <<"T", "O">>,
    <<"I", "F">>, <<"E", "X", "I", "S", "T", "S">>, <<"O", "N">>,
    <<"D", "E", "L", "E", "T", "E">>, <<"U", "P", "D", "A", "T", "E">>,
    <<"C", "A", "S", "C", "A", "D", "E">>, <<"R", "E", "S", "T", "R", "I", "C", "T">>,
    <<"S", "E", "T">>}

TYPE_KEYWORDS == {
    <<"S", "M", "A", "L", "L", "I", "N", "T">>, <<"I", "N", "T", "E", "G", "E", "R">>,
    <<"I", "N", "T">>, <<"B", "I", "G", "I", "N", "T">>, <<"R", "E", "A", "L">>,
    <<"D", "O", "U", "B", "L", "E">>,
    <<"D", "O", "U", "B", "L", "E", " ", "P", "R", "E", "C", "I", "S", "I", "O", "N">>,
    <<"F", "L", "O", "A", "T">>, <<"F", "L", "O", "A", "T", "4">>,
    <<"F", "L", "O", "A", "T", "8">>, <<"N", "U", "M", "E", "R", "I", "C">>,
    <<"D", "E", "C", "I", "M", "A", "L">>, <<"C", "H", "A", "R">>,
    <<"C", "H", "A", "R", "A", "C", "T", "E", "R">>, <<"V", "A", "R", "C", "H", "A", "R">>,
    <<"T", "E", "X", "T">>,
    <<"C", "H", "A", "R", "A", "C", "T", "E", "R", " ", "V", "A", "R", "Y", "I", "N", "G">>,
    <<"B", "O", "O", "L", "E", "A", "N">>, <<"B", "O", "O", "L">>, <<"D", "A", "T", "E">>,
    <<"T", "I", "M", "E">>, <<"T", "I", "M", "E", "S", "T", "A", "M", "P">>,
    <<"T", "I", "M", "E", "S", "T", "A", "M", "P", "T", "Z">>,
    <<"T", "I", "M", "E", "T", "Z">>, <<"I", "N", "T", "E", "R", "V", "A", "L">>,
    <<"J", "S", "O", "N">>, <<"J", "S", "O", "N", "B">>, <<"U", "U", "I", "D">>,
    <<"X", "M", "L">>, <<"B", "Y", "T", "E", "A">>, <<"O", "I", "D">>,
    <<"M", "O", "N", "E", "Y">>}

CONSTRAINT_KEYWORDS == {
    <<"P", "R", "I", "M", "A", "R", "Y">>, <<"F", "O", "R", "E", "I", "G", "N">>,
    <<"U", "N", "I", "Q", "U", "E">>, <<"C", "H", "E", "C", "K">>,
    <<"R", "E", "F", "E", "R", "E", "N", "C", "E", "S">>,
    <<"D", "E", "F", "A", "U", "L", "T">>, <<"N", "O", "T">>, <<"N", "U", "L", "L">>}

LowerLetters == <<"a", "b", "c", "d", "e", "f", "g", "h", "i", "j", "k", "l", "m">>
                \o <<"n", "o", "p", "q", "r", "s", "t", "u", "v", "w", "x", "y", "z">>
UpperLetters == <<"A", "B", "C", "D", "E", "F", "G", "H", "I", "J", "K", "L", "M">>
                \o <<"N", "O", "P", "Q", "R", "S", "T", "U", "V", "W", "X", "Y", "Z">>

Digits == {"0", "1", "2", "3", "4", "5", "6", "7", "8", "9"}

\* [A-Za-z_]
LetterChars == Range(LowerLetters) \cup Range(UpperLetters) \cup {"_"}

\* [ \t\f\v] (the vertical tab has no TLA+ literal and is left out)
Whitespace == {" ", "\t", "\f"}

\* [=<>!@#%^&|*/+\-]
OperatorChars == {"=", "<", ">", "!", "@", "#", "%", "^", "&", "|", "*", "/", "+", "-"}

\* the alternatives of the multi-character operator pattern, in its order
MultiCharOperators ==
    <<<<"<", "=">>,
      <<">", "=">>,
      <<"<", ">">>,
      <<"!", "=">>,
      <<"~", "=">>,
      <<"!", "~", "*">>,
      <<"!", "~">>,
      <<"~", "*">>,
      <<"~">>,
      <<"|", "|">>,
      <<"|", "/">>,
      <<"|", "|", "/">>,
      <<"@", ">">>,
      <<"<", "@">>,
      <<"&", "&">>,
      <<"<", "<">>,
      <<">", ">">>>>

\* str.upper and str.lower on one character
UpperChar(c) ==
    IF \E i \in DOMAIN LowerLetters : LowerLetters[i] = c
    THEN UpperLetters[CHOOSE i \in DOMAIN LowerLetters : LowerLetters[i] = c]
    ELSE c

LowerChar(c) ==
    IF \E i \in DOMAIN UpperLetters : UpperLetters[i] = c
    THEN LowerLetters[CHOOSE i \in DOMAIN UpperLetters : UpperLetters[i] = c]
    ELSE c

\* the character at position p, "" past the end
At(text, p) == IF p >= 0 /\ p < Len(text) THEN text[p + 1] ELSE ""

\* the position after the longest run of characters of S starting at p
RECURSIVE RunEnd(_, _, _)
RunEnd(text, p, S) ==
    IF At(text, p) \in S THEN RunEnd(text, p + 1, S) ELSE p

\* the position after the longest run of characters other than c starting at p
RECURSIVE RunEndExcept(_, _, _)
RunEndExcept(text, p, c) ==
    IF p < Len(text) /\ At(text, p) # c THEN RunEndExcept(text, p + 1, c) ELSE p

\* no match of an alternative
NoEnd == -1

\* the quantifier * : a run may be empty
ZeroOrMore(e, p) == e

\* the quantifier + : a run of at least one character, else no match
OneOrMore(e, p) == IF e > p THEN e ELSE NoEnd

\* text[from .. to - 1] consists of characters other than q and of pairs qq
RECURSIVE QuotedBody(_, _, _, _)
QuotedBody(text, from, to, q) ==
    IF from >= to THEN TRUE
    ELSE IF At(text, from) # q THEN QuotedBody(text, from + 1, to, q)
    ELSE from + 1 < to /\ At(text, from + 1) = q /\ QuotedBody(text, from + 2, to, q)

\* q(?:[^q]|qq)*q : greedy, so the longest text that ends in a closing q
QuotedEnd(text, p, q) ==
    LET closing == {e \in (p + 1)..(Len(text) - 1) :
                       At(text, e) = q /\ QuotedBody(text, p + 1, e, q)}
    IN IF At(text, p) = q /\ closing # {}
       THEN 1 + CHOOSE e \in closing : \A f \in closing : f <= e
       ELSE NoEnd

\* /\*[\s\S]*?\*/ : lazy, so up to the first closing pair
BlockCommentEnd(text, p) ==
    LET closing == {e \in (p + 2)..(Len(text) - 2) :
                       At(text, e) = "*" /\ At(text, e + 1) = "/"}
    IN IF At(text, p) = "/" /\ At(text, p + 1) = "*" /\ closing # {}
       THEN 2 + CHOOSE e \in closing : \A f \in closing : e <= f
       ELSE NoEnd

\* \d+\.\d+
DecimalEnd(text, p) ==
    LET whole == RunEnd(text, p, Digits)
    IN IF OneOrMore(whole, p) # NoEnd /\ At(text, whole) = "."
       THEN OneOrMore(RunEnd(text, whole + 1, Digits), whole + 1)
       ELSE NoEnd

\* the operator op stands at position p
StandsAt(text, p, op) ==
    /\ p + Len(op) <= Len(text)
    /\ \A k \in DOMAIN op : At(text, p + k - 1) = op[k]

MultiCharOperatorEnd(text, p) ==
    LET found == {k \in DOMAIN MultiCharOperators :
                     StandsAt(text, p, MultiCharOperators[k])}
    IN IF found = {} THEN NoEnd
       ELSE p + Len(MultiCharOperators[CHOOSE k \in found : \A j \in found : k <= j])

SingleCharEnd(text, p, S) == IF At(text, p) \in S THEN p + 1 ELSE NoEnd

\* _TOKEN_SPECS: the position where alternative T<i> ends when matched at p
MatchEnd(i, text, p) ==
    CASE i = 0 -> IF At(text, p) = "-" /\ At(text, p + 1) = "-"
                  THEN ZeroOrMore(RunEndExcept(text, p + 2, "\n"), p + 2)
                  ELSE NoEnd
      [] i = 1 -> BlockCommentEnd(text, p)
      [] i = 2 -> IF At(text, p) = "\r" /\ At(text, p + 1) = "\n" THEN p + 2
                  ELSE SingleCharEnd(text, p, {"\r", "\n"})
      [] i = 3 -> OneOrMore(RunEnd(text, p, Whitespace), p)
      [] i = 4 -> QuotedEnd(text, p, "'")
      [] i = 5 -> QuotedEnd(text, p, "\"")
      [] i = 6 -> DecimalEnd(text, p)
      [] i = 7 -> OneOrMore(RunEnd(text, p, Digits), p)
      [] i = 8 -> MultiCharOperatorEnd(text, p)
      [] i = 9 -> SingleCharEnd(text, p, OperatorChars)
      [] i = 10 -> SingleCharEnd(text, p, {","})
      [] i = 11 -> SingleCharEnd(text, p, {"."})
      [] i = 12 -> SingleCharEnd(text, p, {";"})
      [] i = 13 -> SingleCharEnd(text, p, {"("})
      [] i = 14 -> SingleCharEnd(text, p, {")"})
      [] i = 15 -> IF At(text, p) \in LetterChars
                   THEN ZeroOrMore(RunEnd(text, p + 1, LetterChars \cup Digits), p + 1)
                   ELSE NoEnd

\* _group_to_type: the TokenType of alternative T<i>, at index i + 1
_group_to_type ==
    <<"COMMENT", "COMMENT", "NEWLINE", "WHITESPACE", "STRING", "QUOTED_IDENTIFIER",
      "NUMBER", "NUMBER", "OPERATOR", "OPERATOR", "COMMA", "DOT", "SEMICOLON",
      "LPAREN", "RPAREN", "IDENTIFIER">>

\* the first of the alternatives T<i>, T<i+1>, ... that matches at p
RECURSIVE FirstMatch(_, _, _)
FirstMatch(i, text, p) ==
    IF i >= Len(_group_to_type)
    THEN [matched |-> FALSE, lastgroup |-> NoEnd, end |-> NoEnd]
    ELSE LET e == MatchEnd(i, text, p)
         IN IF e # NoEnd THEN [matched |-> TRUE, lastgroup |-> i, end |-> e]
            ELSE FirstMatch(i + 1, text, p)

\* self._master.match(sql_text, pos)
master_match(text, p) == FirstMatch(0, text, p)

_determine_token_type(base_type, value) ==
    LET u == [k \in DOMAIN value |-> UpperChar(value[k])]
    IN IF base_type # "IDENTIFIER" THEN base_type
       ELSE IF u \in KEYWORDS THEN "KEYWORD"
       ELSE IF u \in TYPE_KEYWORDS THEN "TYPE"
       ELSE IF u \in CONSTRAINT_KEYWORDS THEN "CONSTRAINT"
       ELSE "IDENTIFIER"

Token(type, value, ln, column, position) ==
    [type |-> type, value |-> value, line |-> ln, column |-> column, position |-> position]

\* the texts of a call are written over one of these alphabets
CommentAlphabet == {"-", "/", "*", "\n", "a"}
QuoteAlphabet == {"'", "\"", "a", "$"}
NumberAlphabet == {"1", ".", "a", "_", " "}
OperatorAlphabet == {"<", "=", "!", "~", "*", "|"}
PunctuationAlphabet == {",", ";", "(", ")", "\r", "\n"}
WordAlphabet == {"i", "F", "n", "t", "o", " "}
Alphabets == {CommentAlphabet, QuoteAlphabet, NumberAlphabet, OperatorAlphabet,
              PunctuationAlphabet, WordAlphabet}

\* a tokenizer built with preserve_case = False, before tokenize is called
InitTokenize ==
    /\ pc = "idle"
    /\ iteration = "asc"
    /\ sql_a = <<>> /\ sql_b = <<>>
    /\ objects_a = <<>> /\ objects_b = <<>>
    /\ graph_a = SchemaGraph
    /\ graph_b = SchemaGraph
    /\ delta = NoDelta
    /\ match_result = NoMatch
    /\ strict = TRUE
    /\ rules = register_rules(Range(DEFAULT_RULES))
    /\ result = NoResult
    /\ report = NoReport
    /\ caught = <<>>
    /\ config = _init_defaults
    /\ run = "first"
    /\ first_report = NoReport
    /\ TokenizerIdle
    /\ LibraryIdle

\* tokenize(sql_text) is called
CallTokenize ==
    /\ scan = "idle"
    /\ \E alphabet \in Alphabets : sql_text' \in SeqUpTo(alphabet, MaxLen)
    /\ scan' = "loop"
    /\ UNCHANGED <<pos, line, col, tokens, pc, iteration, input_vars, graph_vars, delta,
                   match_vars, session_vars, library_vars, rules, output_vars>>

\* the body of the loop `while pos < n` at position p after the match m: the
\* new values of pos, line, col and tokens, or raised when the match is empty
loop_body(m, text, p, ln, column, toks) ==
    LET base_type == _group_to_type[m.lastgroup + 1]
        matched == SubSeq(text, p + 1, m.end)
        precise == _determine_token_type(base_type, matched)
        value == CASE precise = "IDENTIFIER" ->
                          [k \in DOMAIN matched |-> LowerChar(matched[k])]
                   [] precise = "KEYWORD" ->
                          [k \in DOMAIN matched |-> UpperChar(matched[k])]
                   [] OTHER -> matched
        new_line == IF base_type = "NEWLINE" THEN ln + 1 ELSE ln
        new_col == IF base_type = "NEWLINE" THEN 1 ELSE column + Len(matched)
    IN IF ~m.matched
       THEN [raised |-> FALSE, pos |-> p + 1, line |-> ln, col |-> column + 1,
             tokens |-> Append(toks, Token("OPERATOR", <<At(text, p)>>, ln, column, p))]
       ELSE IF m.end = p
       THEN [raised |-> TRUE, pos |-> p, line |-> ln, col |-> column, tokens |-> toks]
       ELSE [raised |-> FALSE, pos |-> m.end, line |-> new_line, col |-> new_col,
             tokens |-> IF base_type \in {"WHITESPACE", "COMMENT", "NEWLINE"}
                        THEN toks
                        ELSE Append(toks, Token(precise, value, new_line,
                                                new_col - Len(value),
                                                m.end - Len(value)))]

\* one iteration of the loop
Scan ==
    /\ scan = "loop"
    /\ pos < Len(sql_text)
    /\ \E m \in {master_match(sql_text, pos)} :
       \E body \in {loop_body(m, sql_text, pos, line, col, tokens)} :
         /\ scan' = IF body.raised THEN "raised" ELSE "loop"
         /\ pos' = body.pos
         /\ line' = body.line
         /\ col' = body.col
         /\ tokens' = body.tokens
    /\ UNCHANGED <<sql_text, pc, iteration, input_vars, graph_vars, delta, match_vars,
                   session_vars, library_vars, rules, output_vars>>

\* the loop is left: the end-of-stream token is appended and the list returned
ReturnTokens ==
    /\ scan = "loop"
    /\ pos >= Len(sql_text)
    /\ tokens' = Append(tokens, Token("EOF", <<>>, line, col, pos))
    /\ scan' = "returned"
    /\ UNCHANGED <<sql_text, pos, line, col, pc, iteration, input_vars, graph_vars, delta,
                   match_vars, session_vars, library_vars, rules, output_vars>>

NextTokenize == CallTokenize \/ Scan \/ ReturnTokens

SpecTokenize == InitTokenize /\ [][NextTokenize]_vars

\* the interpreter runs the call to its end
SpecTokenizeFair == SpecTokenize /\ WF_vars(NextTokenize)

\* ---------------------------------------------------------------------
\* parser/normalizer.py
\* SQLNormalizer built with its defaults: uppercase_keywords,
\* remove_comments, normalize_whitespace and standardize_quotes all on
\* ---------------------------------------------------------------------
MaxText == 5

\* \s (the vertical tab has no TLA+ literal and is left out)
WhitespaceChars == {" ", "\t", "\n", "\r", "\f"}

\* \w
WordChars == LetterChars \cup Digits

\* str.strip
strip(text) ==
    LET inner == {k \in DOMAIN text : text[k] \notin WhitespaceChars}
    IN IF inner = {} THEN <<>>
       ELSE SubSeq(text, CHOOSE k \in inner : \A j \in inner : k <= j,
                         CHOOSE k \in inner : \A j \in inner : j <= k)

\* patterns["single_line_comment"].sub("", text) from position p on
RECURSIVE RemoveLineComments(_, _)
RemoveLineComments(text, p) ==
    IF p >= Len(text) THEN <<>>
    ELSE IF At(text, p) = "-" /\ At(text, p + 1) = "-"
    THEN RemoveLineComments(text, RunEndExcept(text, p + 2, "\n"))
    ELSE <<At(text, p)>> \o RemoveLineComments(text, p + 1)

\* patterns["multi_line_comment"].sub("", text) from position p on
RECURSIVE RemoveBlockComments(_, _)
RemoveBlockComments(text, p) ==
    IF p >= Len(text) THEN <<>>
    ELSE IF BlockCommentEnd(text, p) # NoEnd
    THEN RemoveBlockComments(text, BlockCommentEnd(text, p))
    ELSE <<At(text, p)>> \o RemoveBlockComments(text, p + 1)

_remove_comments(text) == RemoveBlockComments(RemoveLineComments(text, 0), 0)

\* _compile_keyword_patterns: the words of each pattern, joined by \s+ and
\* enclosed in \b, and its replacement
keyword_patterns ==
    <<
      [words |-> <<<<"c", "r", "e", "a", "t", "e">>>>,
       replacement |-> <<"C", "R", "E", "A", "T", "E">>],
      [words |-> <<<<"t", "a", "b", "l", "e">>>>,
       replacement |-> <<"T", "A", "B", "L", "E">>],
      [words |-> <<<<"a", "l", "t", "e", "r">>>>,
       replacement |-> <<"A", "L", "T", "E", "R">>],
      [words |-> <<<<"d", "r", "o", "p">>>>,
       replacement |-> <<"D", "R", "O", "P">>],
      [words |-> <<<<"a", "d", "d">>>>,
       replacement |-> <<"A", "D", "D">>],
      [words |-> <<<<"c", "o", "l", "u", "m", "n">>>>,
       replacement |-> <<"C", "O", "L", "U", "M", "N">>],
      [words |-> <<<<"c", "o", "n", "s", "t", "r", "a", "i", "n", "t">>>>,
       replacement |-> <<"C", "O", "N", "S", "T", "R", "A", "I", "N", "T">>],
      [words |-> <<<<"p", "r", "i", "m", "a", "r", "y">>>>,
       replacement |-> <<"P", "R", "I", "M", "A", "R", "Y">>],
      [words |-> <<<<"k", "e", "y">>>>,
       replacement |-> <<"K", "E", "Y">>],
      [words |-> <<<<"f", "o", "r", "e", "i", "g", "n">>>>,
       replacement |-> <<"F", "O", "R", "E", "I", "G", "N">>],
      [words |-> <<<<"r", "e", "f", "e", "r", "e", "n", "c", "e", "s">>>>,
       replacement |-> <<"R", "E", "F", "E", "R", "E", "N", "C", "E", "S">>],
      [words |-> <<<<"u", "n", "i", "q", "u", "e">>>>,
       replacement |-> <<"U", "N", "I", "Q", "U", "E">>],
      [words |-> <<<<"c", "h", "e", "c", "k">>>>,
       replacement |-> <<"C", "H", "E", "C", "K">>],
      [words |-> <<<<"n", "o", "t">>>>,
       replacement |-> <<"N", "O", "T">>],
      [words |-> <<<<"n", "u", "l", "l">>>>,
       replacement |-> <<"N", "U", "L", "L">>],
      [words |-> <<<<"d", "e", "f", "a", "u", "l", "t">>>>,
       replacement |-> <<"D", "E", "F", "A", "U", "L", "T">>],
      [words |-> <<<<"d", "o", "u", "b", "l", "e">>, <<"p", "r", "e", "c", "i", "s", "i", "o", "n">>>>,
       replacement |-> <<"D", "O", "U", "B", "L", "E", " ", "P", "R", "E", "C", "I", "S", "I", "O", "N">>],
      [words |-> <<<<"c", "h", "a", "r", "a", "c", "t", "e", "r">>, <<"v", "a", "r", "y", "i", "n", "g">>>>,
       replacement |-> <<"C", "H", "A", "R", "A", "C", "T", "E", "R", " ", "V", "A", "R", "Y", "I", "N", "G">>],
      [words |-> <<<<"i", "f">>, <<"e", "x", "i", "s", "t", "s">>>>,
       replacement |-> <<"I", "F", " ", "E", "X", "I", "S", "T", "S">>]
    >>

\* the word w stands at position p, letter case ignored
WordAt(text, p, w) ==
    /\ p + Len(w) <= Len(text)
    /\ \A k \in DOMAIN w : LowerChar(At(text, p + k - 1)) = w[k]

\* \b at position p
WordBoundary(text, p) == (At(text, p - 1) \in WordChars) # (At(text, p) \in WordChars)

\* the position where the pattern ends when it matches at p
PatternEnd(text, p, pattern) ==
    LET w1 == pattern.words[1]
        gap == RunEnd(text, p + Len(w1), WhitespaceChars)
        last == IF Len(pattern.words) = 1 THEN p + Len(w1)
                ELSE gap + Len(pattern.words[2])
    IN IF /\ WordBoundary(text, p)
          /\ WordAt(text, p, w1)
          /\ Len(pattern.words) = 2 =>
                 /\ OneOrMore(gap, p + Len(w1)) # NoEnd
                 /\ WordAt(text, gap, pattern.words[2])
          /\ WordBoundary(text, last)
       THEN last
       ELSE NoEnd

\* pattern.sub(replacement, text) from position p on
RECURSIVE SubstitutePattern(_, _, _)
SubstitutePattern(text, p, pattern) ==
    IF p >= Len(text) THEN <<>>
    ELSE IF PatternEnd(text, p, pattern) # NoEnd
    THEN pattern.replacement \o SubstitutePattern(text, PatternEnd(text, p, pattern), pattern)
    ELSE <<At(text, p)>> \o SubstitutePattern(text, p + 1, pattern)

\* the loop of _uppercase_keywords from pattern i on
RECURSIVE UppercaseFrom(_, _)
UppercaseFrom(text, i) ==
    IF i > Len(keyword_patterns) THEN text
    ELSE UppercaseFrom(SubstitutePattern(text, 0, keyword_patterns[i]), i + 1)

_uppercase_keywords(text) == UppercaseFrom(text, 1)

\* patterns["multiple_spaces"].sub(" ", text) from position p on
RECURSIVE CollapseWhitespace(_, _)
CollapseWhitespace(text, p) ==
    IF p >= Len(text) THEN <<>>
    ELSE IF At(text, p) \in WhitespaceChars
    THEN <<" ">> \o CollapseWhitespace(text, RunEnd(text, p, WhitespaceChars))
    ELSE <<At(text, p)>> \o CollapseWhitespace(text, p + 1)

\* re.sub of \s+c by c, for patterns["space_before_comma"] and
\* patterns["space_before_semicolon"], from position p on
RECURSIVE RemoveSpaceBefore(_, _, _)
RemoveSpaceBefore(text, p, c) ==
    IF p >= Len(text) THEN <<>>
    ELSE IF /\ At(text, p) \in WhitespaceChars
            /\ At(text, RunEnd(text, p, WhitespaceChars)) = c
    THEN <<c>> \o RemoveSpaceBefore(text, RunEnd(text, p, WhitespaceChars) + 1, c)
    ELSE <<At(text, p)>> \o RemoveSpaceBefore(text, p + 1, c)

\* patterns["space_after_comma"].sub(", ", text) from position p on
RECURSIVE SpaceAfterComma(_, _)
SpaceAfterComma(text, p) ==
    IF p >= Len(text) THEN <<>>
    ELSE IF At(text, p) = ","
    THEN <<",", " ">> \o SpaceAfterComma(text, RunEnd(text, p + 1, WhitespaceChars))
    ELSE <<At(text, p)>> \o SpaceAfterComma(text, p + 1)

_normalize_whitespace(text) ==
    strip(RemoveSpaceBefore(
              SpaceAfterComma(RemoveSpaceBefore(CollapseWhitespace(text, 0), 0, ","), 0),
              0, ";"))

\* the position of the first q after position p
NextQuote(text, p, q) ==
    LET later == {e \in (p + 1)..(Len(text) - 1) : At(text, e) = q}
    IN IF later = {} THEN NoEnd ELSE CHOOSE e \in later : \A f \in later : e <= f

\* re.sub of q\s+([^q]+?)\s+q by q\1q from position p on: the quoted text
\* must begin and end with whitespace around at least one more character;
\* the group is the text without the whitespace at its ends, or the last
\* but one character when the text is all whitespace
RECURSIVE TrimQuoted(_, _, _)
TrimQuoted(text, p, q) ==
    LET e == NextQuote(text, p, q)
        inside == SubSeq(text, p + 2, e)
        group == IF strip(inside) = <<>> THEN <<At(text, e - 2)>> ELSE strip(inside)
    IN IF p >= Len(text) THEN <<>>
       ELSE IF /\ At(text, p) = q
               /\ e # NoEnd
               /\ e - p - 1 >= 3
               /\ At(text, p + 1) \in WhitespaceChars
               /\ At(text, e - 1) \in WhitespaceChars
       THEN <<q>> \o group \o <<q>> \o TrimQuoted(text, e + 1, q)
       ELSE <<At(text, p)>> \o TrimQuoted(text, p + 1, q)

_standardize_quotes(text) == TrimQuoted(TrimQuoted(text, 0, "\""), 0, "'")

\* SQLTokenizer.tokenize as a function: the loop from position p on, then
\* the end-of-stream token
RECURSIVE tokenize(_, _, _, _, _)
tokenize(text, p, ln, column, toks) ==
    IF p >= Len(text) THEN Append(toks, Token("EOF", <<>>, ln, column, p))
    ELSE LET body == loop_body(master_match(text, p), text, p, ln, column, toks)
         IN IF body.raised THEN <<Token("ValueError", <<>>, ln, column, p)>>
            ELSE tokenize(text, body.pos, body.line, body.col, body.tokens)

\* the parts appended for token i and the tokens after it
RECURSIVE JoinParts(_, _)
JoinParts(toks, i) ==
    IF i > Len(toks) THEN <<>>
    ELSE IF i = Len(toks) THEN toks[i].value
    ELSE IF toks[i + 1].type \in {"COMMA", "RPAREN", "DOT", "SEMICOLON"}
    THEN toks[i].value \o JoinParts(toks, i + 1)
    ELSE IF toks[i].type \in {"LPAREN", "DOT"}
    THEN toks[i].value \o JoinParts(toks, i + 1)
    ELSE toks[i].value \o <<" ">> \o JoinParts(toks, i + 1)

_token_level_normalization(text) ==
    LET toks == SelectSeq(tokenize(text, 0, 1, 1, <<>>), LAMBDA t : t.type # "EOF")
    IN strip(CollapseWhitespace(JoinParts(toks, 1), 0))

normalize(text) ==
    IF strip(text) = <<>> THEN text
    ELSE strip(_token_level_normalization(
                   _standardize_quotes(
                       _normalize_whitespace(
                           _uppercase_keywords(
                               _remove_comments(text))))))

\* the texts of a call are written over one of these alphabets
QuotedListAlphabet == {"\"", " ", "a", ","}
CommentedAlphabet == {"-", "/", "*", "\n"}
KeywordAlphabet == {"k", "E", "y", " "}
TextAlphabets == {QuotedListAlphabet, CommentedAlphabet, KeywordAlphabet}

\* a normalizer and a text, before normalize is called
InitNormalize ==
    /\ pc = "idle"
    /\ iteration = "asc"
    /\ sql_a = <<>> /\ sql_b = <<>>
    /\ objects_a = <<>> /\ objects_b = <<>>
    /\ graph_a = SchemaGraph
    /\ graph_b = SchemaGraph
    /\ delta = NoDelta
    /\ match_result = NoMatch
    /\ strict = TRUE
    /\ rules = register_rules(Range(DEFAULT_RULES))
    /\ result = NoResult
    /\ report = NoReport
    /\ caught = <<>>
    /\ config = _init_defaults
    /\ run = "first"
    /\ first_report = NoReport
    /\ \E alphabet \in TextAlphabets : sql_text \in SeqUpTo(alphabet, MaxText)
    /\ pos = 0
    /\ line = 1
    /\ col = 1
    /\ tokens = <<>>
    /\ scan = "idle"
    /\ LibraryIdle

\* normalize(sql_text)
Normalize ==
    /\ normalized = <<>>
    /\ normalized' = <<normalize(sql_text)>>
    /\ UNCHANGED <<graph_library_vars, call, pc, iteration, input_vars, graph_vars, delta, match_vars, session_vars,
                   tokenizer_vars, rules, output_vars>>

\* normalize called on the text the first call returned
NormalizeAgain ==
    /\ Len(normalized) = 1
    /\ normalized' = Append(normalized, normalize(normalized[1]))
    /\ UNCHANGED <<graph_library_vars, call, pc, iteration, input_vars, graph_vars, delta, match_vars, session_vars,
                   tokenizer_vars, rules, output_vars>>

NextNormalize == Normalize \/ NormalizeAgain

SpecNormalize == InitNormalize /\ [][NextNormalize]_vars

\* ---------------------------------------------------------------------
\* graph/schema_graph.py used on its own. schema_graph.vertices maps a
\* vertex id to a reference into the heap, where the object's id attribute
\* lives; schema_graph.edges lists the Edge values the edge set holds.
\* ---------------------------------------------------------------------
RelationFilter(relations) == [none |-> FALSE, only |-> relations]
NoFilter == [none |-> TRUE, only |-> {}]

\* Edge.__eq__ of the frozen dataclass: all three fields
Edge_eq(e, f) == e.src = f.src /\ e.dst = f.dst /\ e.relation = f.relation

\* list.append in place of set.add
ListAppend(edges, e) == Append(edges, e)

\* set.add: the edge is stored unless the set holds an equal one
SetAdd(edges, e) ==
    IF \E i \in DOMAIN edges : Edge_eq(edges[i], e) THEN edges ELSE Append(edges, e)

InitGraph ==
    /\ pc = "idle"
    /\ iteration = "asc"
    /\ sql_a = <<>> /\ sql_b = <<>>
    /\ objects_a = <<>> /\ objects_b = <<>>
    /\ graph_a = SchemaGraph
    /\ graph_b = SchemaGraph
    /\ delta = NoDelta
    /\ match_result = NoMatch
    /\ strict = TRUE
    /\ rules = register_rules(Range(DEFAULT_RULES))
    /\ result = NoResult
    /\ report = NoReport
    /\ caught = <<>>
    /\ config = _init_defaults
    /\ run = "first"
    /\ first_report = NoReport
    /\ TokenizerIdle
    /\ LibraryIdle

\* add_vertex(obj) for the object behind reference r: obj.id is assigned in
\* the heap, the reference is stored under the id, the id is returned
AddVertex ==
    /\ ~dependents.called
    /\ Len(added) < MaxCalls
    /\ \E r \in ObjectRefs :
         /\ heap' = [heap EXCEPT ![r].id = schema_graph.next_id]
         /\ schema_graph' =
                [schema_graph EXCEPT
                    !.vertices = (schema_graph.next_id :> r) @@ schema_graph.vertices,
                    !.next_id = schema_graph.next_id + 1]
         /\ added' = Append(added, [ref |-> r, returned |-> heap'[r].id])
    /\ UNCHANGED <<edge_calls, dependents, normalized, call, pc, iteration, input_vars, graph_vars,
                   delta, match_vars, session_vars, tokenizer_vars, rules, output_vars>>

\* add_edge(src_id, dst_id, relation); the call and whether it raised
\* ValueError are recorded in edge_calls
AddEdge(src_id, dst_id, relation) ==
    /\ ~dependents.called
    /\ Len(edge_calls) < MaxEdges
    /\ IF src_id \notin DOMAIN schema_graph.vertices \/ dst_id \notin DOMAIN schema_graph.vertices
       THEN /\ edge_calls' = Append(edge_calls, [edge |-> Edge(src_id, dst_id, relation),
                                                 raised |-> TRUE])
            /\ UNCHANGED schema_graph
       ELSE /\ edge_calls' = Append(edge_calls, [edge |-> Edge(src_id, dst_id, relation),
                                                 raised |-> FALSE])
            /\ schema_graph' =
                   [schema_graph EXCEPT
                       !.edges = SetAdd(schema_graph.edges, Edge(src_id, dst_id, relation))]
    /\ UNCHANGED <<heap, added, dependents, normalized, call, pc, iteration, input_vars, graph_vars,
                   delta, match_vars, session_vars, tokenizer_vars, rules, output_vars>>

\* the ids add_edge is called with: those handed out and the next one, which
\* no vertex has; the relations it is called with
EdgeIds(g) == 1..g.next_id
EdgeRelations == {CONTAINS, DEPENDS_ON}

AddSomeEdge ==
    \E s \in EdgeIds(schema_graph), d \in EdgeIds(schema_graph), rel \in EdgeRelations :
        AddEdge(s, d, rel)

\* the edges get_incoming(obj) yields, in the order the edge set is iterated
IncomingOf(g, objects, ref) ==
    SelectSeq(g.edges, LAMBDA e : e.dst = objects[ref].id)

\* the inner loop of transitive_dependents over the incoming edges from
\* index i on: the references passed to result.add and queue.append
RECURSIVE FoundVia(_, _, _, _, _, _)
FoundVia(g, objects, relations, incoming, i, visited) ==
    IF i > Len(incoming) THEN <<>>
    ELSE LET e == incoming[i]
             further == FoundVia(g, objects, relations, incoming, i + 1, visited)
         IN IF /\ relations.none \/ e.relation \in relations.only
               /\ e.src \in DOMAIN g.vertices
               /\ objects[g.vertices[e.src]].id \notin visited
            THEN <<g.vertices[e.src]>> \o further
            ELSE further

\* the loop `while queue` of transitive_dependents: the references passed to
\* result.add, in order
RECURSIVE Traverse(_, _, _, _, _, _)
Traverse(g, objects, relations, queue, visited, found) ==
    IF queue = <<>> THEN found
    ELSE LET current_id == Head(queue)
         IN IF current_id \in visited
            THEN Traverse(g, objects, relations, Tail(queue), visited, found)
            ELSE IF current_id \notin DOMAIN g.vertices
            THEN Traverse(g, objects, relations, Tail(queue), visited \cup {current_id}, found)
            ELSE LET new == FoundVia(g, objects, relations,
                                     IncomingOf(g, objects, g.vertices[current_id]), 1,
                                     visited \cup {current_id})
                 IN Traverse(g, objects, relations,
                             Tail(queue) \o [k \in DOMAIN new |-> objects[new[k]].id],
                             visited \cup {current_id}, found \o new)

\* result.add for each reference in turn: a set of DatabaseObject keeps the
\* first of the objects that are equal by __eq__
RECURSIVE ResultSet(_, _, _)
ResultSet(objects, found, i) ==
    IF i > Len(found) THEN {}
    ELSE LET earlier == {found[k] : k \in 1..(i - 1)}
         IN (IF \E r \in earlier : r = found[i] \/ DatabaseObject_eq(objects[r], objects[found[i]])
             THEN {} ELSE {found[i]})
            \cup ResultSet(objects, found, i + 1)

transitive_dependents(g, objects, ref, relations) ==
    ResultSet(objects, Traverse(g, objects, relations, <<objects[ref].id>>, {}, <<>>), 1)

\* transitive_dependents(obj, relations=...) is called on the graph built so far
QueryDependents ==
    /\ ~dependents.called
    /\ \E id \in DOMAIN schema_graph.vertices,
          relations \in {NoFilter} \cup {RelationFilter({rel}) : rel \in EdgeRelations} :
         dependents' = [called |-> TRUE, obj |-> schema_graph.vertices[id],
                        relations |-> relations,
                        result |-> transitive_dependents(schema_graph, heap,
                                                        schema_graph.vertices[id], relations)]
    /\ UNCHANGED <<heap, schema_graph, added, edge_calls, normalized, call, pc, iteration,
                   input_vars, graph_vars, delta, match_vars, session_vars, tokenizer_vars,
                   rules, output_vars>>

NextGraph == AddVertex \/ AddSomeEdge \/ QueryDependents

SpecGraph == InitGraph /\ [][NextGraph]_vars

\* ---------------------------------------------------------------------
\* GraphBuilder.build_from_objects on one list of Table objects, which may
\* name a table twice and may reference tables in another spelling
\* ---------------------------------------------------------------------
MaxBuilt == 3

StmtOrdersUpper ==
    CreateTable("CREATE TABLE orders (user_id INTEGER REFERENCES Users (id));",
        "public", "orders",
        <<WithReferences(
              ColumnElement("user_id INTEGER REFERENCES Users (id)", "user_id", "INTEGER",
                            FALSE, FALSE, FALSE, FALSE),
              "REFERENCES Users (id)", "public", "Users", "id")>>)

\* a Table object whose foreign key names the referenced table in quotes
TableOrdersQuoted ==
    Table("orders", "public", <<>>,
          [foreign_keys |-> <<[column |-> "user_id", referenced_schema |-> None,
                               referenced_table |-> "\"users\"",
                               referenced_column |-> "id"]>>,
           raw_sql |-> ""])

TableObjectPool ==
    {_parse_create_table(StmtUsers), _parse_create_table(StmtOrders),
     _parse_create_table(StmtOrdersUpper), TableOrdersQuoted, _parse_create_table(StmtA)}

InitBuild ==
    /\ pc = "build"
    /\ iteration = "asc"
    /\ sql_a = <<>> /\ sql_b = <<>>
    /\ objects_a \in SeqUpTo(TableObjectPool, MaxBuilt)
    /\ objects_b = <<>>
    /\ graph_a = SchemaGraph
    /\ graph_b = SchemaGraph
    /\ delta = NoDelta
    /\ match_result = NoMatch
    /\ strict = TRUE
    /\ rules = register_rules(Range(DEFAULT_RULES))
    /\ result = NoResult
    /\ report = NoReport
    /\ caught = <<>>
    /\ config = _init_defaults
    /\ run = "first"
    /\ first_report = NoReport
    /\ TokenizerIdle
    /\ LibraryIdle

\* GraphBuilder().build_from_objects(objects)
Build ==
    /\ pc = "build"
    /\ graph_a' = build_from_objects(objects_a)
    /\ pc' = "built"
    /\ UNCHANGED <<graph_b, iteration, input_vars, delta, match_vars, session_vars,
                   tokenizer_vars, library_vars, rules, output_vars>>

NextBuild == Build

SpecBuild == InitBuild /\ [][NextBuild]_vars

\* ---------------------------------------------------------------------
\* Properties of the comparator and the matcher
\* ---------------------------------------------------------------------
Compared == pc \in {"compared", "matched"}

KeysOf(g) == {_object_key(o) : o \in VertexObjects(g)}

\* C3: the keys of objects_added are exactly K_B - K_A and those of
\* objects_removed exactly K_A - K_B, with one object per key, also when
\* several added or removed vertices share (type, schema, name).
C3_DeltaKeySets ==
    Compared =>
        LET KA == KeysOf(graph_a)
            KB == KeysOf(graph_b)
        IN /\ {_object_key(o) : o \in delta.objects_added} = KB \ KA
           /\ {_object_key(o) : o \in delta.objects_removed} = KA \ KB
           /\ Cardinality(delta.objects_added) = Cardinality(KB \ KA)
           /\ Cardinality(delta.objects_removed) = Cardinality(KA \ KB)

\* the keys on which two attribute maps differ: present in one map only, or
\* present in both with unequal values
AttributeDifference(a, b) ==
    {k \in DOMAIN a \cup DOMAIN b : k \notin DOMAIN a \cap DOMAIN b \/ a[k] # b[k]}

\* C4: a pair of vertices with the same key is in objects_modified, exactly
\* once, iff their attribute maps differ, and its changed_fields is exactly
\* the set of attribute keys on which the maps differ (a key with value None
\* in one map and absent from the other counts as a difference).
C4_ModifiedIffAttributesDiffer ==
    Compared =>
        \A k \in KeysOf(graph_a) \cap KeysOf(graph_b) :
            LET oa == KeyIndex(graph_a)[k]
                ob == KeyIndex(graph_b)[k]
                entries == {i \in DOMAIN delta.objects_modified :
                               /\ delta.objects_modified[i].before = oa
                               /\ delta.objects_modified[i].after = ob}
            IN /\ Cardinality(entries) <= 1
               /\ (oa.attributes # ob.attributes) <=> (entries # {})
               /\ \A i \in entries :
                      delta.objects_modified[i].changed_fields
                          = AttributeDifference(oa.attributes, ob.attributes)

\* the equivalence key of the specification: lowercased schema, object type,
\* lowercased owning table for Column/PrimaryKey/UniqueConstraint/ForeignKey
\* (empty otherwise), lowercased name
EquivalenceKey(o) ==
    LET t1 == Get(o.attributes, "table")
        owner == IF Truthy(t1) THEN t1 ELSE Get(o.attributes, "from_table")
        table == IF o.type \in {COLUMN, PRIMARY_KEY, UNIQUE_CONSTRAINT, FOREIGN_KEY}
                    /\ Truthy(owner)
                 THEN Lower(owner) ELSE ""
    IN <<Lower(OrPublic(o.schema)), o.type, table, Lower(o.name)>>

\* C5: a vertex of A and a vertex of B are the same object for the comparator
\* (they share its key) and for the matcher (they are paired) iff they agree
\* on the equivalence key, so comparator and matcher agree.
C5_SameObjectIffKeysAgree ==
    (pc = "matched" /\ strict /\ match_result.status = "ok") =>
        \A i \in VertexIds(graph_a), j \in VertexIds(graph_b) :
            LET a == graph_a.vertices[i]
                b == graph_b.vertices[j]
                same == EquivalenceKey(a) = EquivalenceKey(b)
                paired == \E n \in DOMAIN match_result.pairs :
                              match_result.pairs[n] = <<i, j>>
            IN /\ same <=> (_object_key(a) = _object_key(b))
               /\ same <=> paired

\* C6: when strict match returns a MatchResult, every equivalence key belongs
\* to at most one vertex of graph A and at most one vertex of graph B.
C6_StrictMatchKeysUnique ==
    (pc = "matched" /\ strict /\ match_result.status = "ok") =>
        /\ \A i, j \in VertexIds(graph_a) :
               _vertex_key(graph_a.vertices[i]) = _vertex_key(graph_a.vertices[j]) => i = j
        /\ \A i, j \in VertexIds(graph_b) :
               _vertex_key(graph_b.vertices[i]) = _vertex_key(graph_b.vertices[j]) => i = j

\* ---------------------------------------------------------------------
\* Properties of the rule registry
\* ---------------------------------------------------------------------
\* the enabled rules whose apply raises on the current input
FailingRules ==
    {r \in get_enabled_rules(rules) :
        rule_apply(r, delta, graph_a, graph_b, iteration).raised}

\* the registry without rule r
Unregister(rs, r) == [q \in DOMAIN rs \ {r} |-> rs[q]]

\* C1: when the apply of an enabled rule raises, apply_all still returns, the
\* returned conflicts are those it returns with the failing rule not
\* registered, and the failing rule has exactly one statistics entry, with
\* applied = false and conflicts_found = 0.
C1_RuleIsolation ==
    pc = "report" =>
        \A r \in FailingRules :
            /\ result.conflicts =
                   apply_all(config, Unregister(rules, r), delta, graph_a, graph_b,
                             iteration).conflicts
            /\ LET entries == {i \in DOMAIN result.statistics :
                                  result.statistics[i].rule_id = r}
               IN /\ Cardinality(entries) = 1
                  /\ \A i \in entries :
                         /\ result.statistics[i].applied = FALSE
                         /\ result.statistics[i].conflicts_found = 0

\* a rule raised while other rules reported conflicts
C1_Witness ==
    /\ pc = "report"
    /\ FailingRules # {}
    /\ result.conflicts # <<>>
    /\ \E i \in DOMAIN result.statistics : result.statistics[i].applied = FALSE

\* ---------------------------------------------------------------------
\* Properties of detect
\* ---------------------------------------------------------------------
Malformed(sql) == \E i \in DOMAIN sql : parse_to_objects_raises(sql[i])

\* C2: detect always returns a report; when a stage raised (a statement that
\* cannot be parsed, or an exception escaping any stage) the report is the
\* error report: exactly one conflict, of rule SYSTEM and level critical, and
\* merge_blocked = true.
C2_DetectReturnsErrorReport ==
    pc = "done" =>
        /\ report # NoReport
        /\ (Malformed(sql_a) \/ Malformed(sql_b)) => caught # <<>>
        /\ caught # <<>> =>
               /\ Len(report.conflicts) = 1
               /\ report.conflicts[1].rule = "SYSTEM"
               /\ report.conflicts[1].level = "critical"
               /\ report.summary.merge_blocked = TRUE

\* detect returned after the parser raised on the second schema
C2_Witness ==
    /\ pc = "done"
    /\ ~Malformed(sql_a) /\ Malformed(sql_b)
    /\ caught # <<>>
    /\ "error" \in DOMAIN report

\* two vertices of g share an equivalence key
DuplicateKeys(g) ==
    \E i, j \in VertexIds(g) :
        i # j /\ EquivalenceKey(g.vertices[i]) = EquivalenceKey(g.vertices[j])

\* C7: when a graph handed to the comparison stage has two vertices with the
\* same equivalence key, the run produces no Delta and ends with an error.
C7_DuplicateKeysAbort ==
    (DuplicateKeys(graph_a) \/ DuplicateKeys(graph_b)) =>
        /\ pc \notin {"apply", "report"}
        /\ pc = "done" => caught # <<>>

\* ---------------------------------------------------------------------
\* Properties of the rules
\* ---------------------------------------------------------------------
ConflictsOf(conflicts, r) == SelectSeq(conflicts, LAMBDA c : c.rule = r)

\* the removed tables with an incoming References edge in graph A
RemovedReferencedTables ==
    {o \in delta.objects_removed :
        o.type = TABLE /\ get_incoming(graph_a, o, REFERENCES) # {}}

UsersDropped ==
    /\ Len(sql_a) = 2
    /\ Range(sql_a) = {StmtUsers, StmtOrders}
    /\ sql_b = <<StmtOrders>>

\* C8: R1 reports one critical conflict naming the table for every removed
\* table with an incoming References edge in graph A and nothing else; when
\* schema A has users and orders(id, user_id REFERENCES users(id)) and schema
\* B drops users, the report has exactly one R1 conflict, critical, naming
\* users.
C8_R1RemovedReferencedTable ==
    /\ (pc = "report" /\ rules["R1"].enabled) =>
           LET r1 == ConflictsOf(result.conflicts, "R1")
           IN /\ Len(r1) = Cardinality(RemovedReferencedTables)
              /\ \A i \in DOMAIN r1 : r1[i].level = CRITICAL
              /\ \A o \in RemovedReferencedTables :
                     Cardinality({i \in DOMAIN r1 :
                                     /\ r1[i].details.table = o.name
                                     /\ o.name \in Range(r1[i].message)}) = 1
    /\ (pc = "done" /\ caught = <<>> /\ UsersDropped) =>
           LET r1 == ConflictsOf(report.conflicts, "R1")
           IN /\ Len(r1) = 1
              /\ r1[1].level = CRITICAL
              /\ r1[1].details.table = "users"
              /\ "users" \in Range(r1[1].message)

\* the run on the scenario returned its report
C8_Witness ==
    /\ pc = "done" /\ caught = <<>> /\ UsersDropped
    /\ Len(ConflictsOf(report.conflicts, "R1")) = 1

\* C9: for a modified column whose table in graph B has an incoming
\* References edge, a data_type change INTEGER -> VARCHAR yields an R2
\* conflict of level critical and a change INTEGER -> BIGINT yields none.
C9_R2IntegerToVarchar ==
    (pc = "report" /\ rules["R2"].enabled) =>
        \A i \in DOMAIN delta.objects_modified :
            LET m == delta.objects_modified[i]
                table == TableOf(graph_b, m.after)
                old_type == Get(m.before.attributes, "data_type")
                new_type == Get(m.after.attributes, "data_type")
                hits == {j \in DOMAIN result.conflicts :
                            /\ result.conflicts[j].rule = "R2"
                            /\ result.conflicts[j].details.table = table.name
                            /\ result.conflicts[j].details.column = m.after.name}
            IN (/\ m.before.type = COLUMN
                /\ "data_type" \in m.changed_fields
                /\ table # NoObject
                /\ get_incoming(graph_b, table, REFERENCES) # {}) =>
                   /\ (old_type = "INTEGER" /\ new_type = "VARCHAR") =>
                          /\ hits # {}
                          /\ \A j \in hits : result.conflicts[j].level = CRITICAL
                   /\ (old_type = "INTEGER" /\ new_type = "BIGINT") => hits = {}

\* the table owns a foreign key in graph g: a ForeignKey vertex depends on it
OwnsForeignKey(g, table) ==
    \E e \in g.edges :
        /\ e.relation = DEPENDS_ON
        /\ e.dst = table.id
        /\ g.vertices[e.src].type = FOREIGN_KEY

\* C10: R3 reports one high conflict for every removed table that in graph A
\* was referenced by a foreign key or owned one, and nothing for the other
\* removed tables.
C10_R3EitherDirection ==
    (pc = "report" /\ rules["R3"].enabled) =>
        \A o \in {t \in delta.objects_removed : t.type = TABLE} :
            LET r3 == {j \in DOMAIN result.conflicts :
                          /\ result.conflicts[j].rule = "R3"
                          /\ result.conflicts[j].details.table = o.name}
            IN IF get_incoming(graph_a, o, REFERENCES) # {} \/ OwnsForeignKey(graph_a, o)
               THEN /\ Cardinality(r3) = 1
                    /\ \A j \in r3 : result.conflicts[j].level = HIGH
               ELSE r3 = {}

\* the entries of the statistics of apply_all for rule r
StatisticsOf(r) ==
    {i \in DOMAIN result.statistics : result.statistics[i].rule_id = r}

\* C11: when email TEXT of schema A becomes email TEXT NOT NULL in schema B
\* the report has exactly one R6 conflict, of level high, naming email; with
\* a DEFAULT added in the same change it has no R6 conflict; in both runs R6
\* is applied without failing.
C11_R6NotNullWithoutDefault ==
    (pc = "done" /\ caught = <<>> /\ sql_a = <<StmtEmail>>) =>
        LET r6 == ConflictsOf(report.conflicts, "R6")
            applied == /\ StatisticsOf("R6") # {}
                       /\ \A i \in StatisticsOf("R6") : result.statistics[i].applied
        IN /\ sql_b = <<StmtEmailNotNull>> =>
                  /\ Len(r6) = 1
                  /\ r6[1].level = HIGH
                  /\ "email" \in Range(r6[1].message)
                  /\ applied
           /\ sql_b = <<StmtEmailNotNullDefault>> =>
                  /\ Len(r6) = 0
                  /\ applied

\* the ids of the tables that table id t references through a foreign key of
\* graph g (the ForeignKey vertex depends on t and references the other table)
ReferencedBy(g, t) ==
    {e2.dst : e2 \in {e \in g.edges :
        /\ e.relation = REFERENCES
        /\ Edge(e.src, t, DEPENDS_ON) \in g.edges
        /\ g.vertices[e.src].type = FOREIGN_KEY}}

\* the table ids reachable from the set S in at most n steps of ReferencedBy
RECURSIVE ReachableTables(_, _, _)
ReachableTables(g, S, n) ==
    IF n = 0 THEN S
    ELSE ReachableTables(g, S \cup UNION {ReferencedBy(g, t) : t \in S}, n - 1)

\* the tables of g that lie on a cycle of foreign-key references
TablesOnCycle(g) ==
    {t \in VertexIds(g) :
        /\ g.vertices[t].type = TABLE
        /\ t \in ReachableTables(g, ReferencedBy(g, t), Cardinality(VertexIds(g)))}

\* C12: when tables of graph B reference each other in a cycle (a references
\* b and b references a), R7 reports at least one critical conflict whose
\* cycle detail lists the tables on the cycle.
C12_R7ReportsCycle ==
    (pc = "report" /\ rules["R7"].enabled /\ TablesOnCycle(graph_b) # {}) =>
        \E i \in DOMAIN result.conflicts :
            /\ result.conflicts[i].rule = "R7"
            /\ result.conflicts[i].level = CRITICAL
            /\ \E t \in TablesOnCycle(graph_b) :
                   graph_b.vertices[t].name \in Range(result.conflicts[i].details.cycle)

\* the removed constraints
RemovedConstraints ==
    {o \in delta.objects_removed :
        o.type \in {PRIMARY_KEY, UNIQUE_CONSTRAINT, FOREIGN_KEY}}

\* the table a constraint belongs to
ConstraintTable(o) ==
    IF o.type = FOREIGN_KEY THEN o.attributes.from_table ELSE o.attributes.table

\* C13: R4 reports exactly one high conflict for every removed PrimaryKey,
\* UniqueConstraint or ForeignKey, naming the constraint and its table, and
\* nothing for removed objects of other kinds.
C13_R4RemovedConstraints ==
    (/\ pc = "report"
     /\ rules["R4"].enabled
     /\ Cardinality(RemovedConstraints) <= rules["R4"].max_reports_per_rule) =>
        LET r4 == ConflictsOf(result.conflicts, "R4")
        IN /\ Len(r4) = Cardinality(RemovedConstraints)
           /\ \A i \in DOMAIN r4 : r4[i].level = HIGH
           /\ \A o \in RemovedConstraints :
                  Cardinality({i \in DOMAIN r4 :
                                  /\ r4[i].details.constraint = o.name
                                  /\ r4[i].details.type = o.type
                                  /\ r4[i].details.table = ConstraintTable(o)
                                  /\ o.name \in Range(r4[i].message)}) = 1

\* a unique constraint and a primary key were removed together with objects
\* of other kinds, and R4 reported the two constraints
C13_Witness ==
    /\ pc = "report"
    /\ \E o \in RemovedConstraints : o.type = UNIQUE_CONSTRAINT
    /\ \E o \in RemovedConstraints : o.type = PRIMARY_KEY
    /\ \E o \in delta.objects_removed : o.type = TABLE
    /\ Len(ConflictsOf(result.conflicts, "R4")) = 2

\* the entries of objects_modified whose object is a primary key
ModifiedPrimaryKeys ==
    {i \in DOMAIN delta.objects_modified :
        delta.objects_modified[i].before.type = PRIMARY_KEY}

KeyMoved == sql_a = <<StmtEmail>> /\ sql_b = <<StmtKeyMoved>>

\* C14: R5 reports exactly one critical conflict naming the table for every
\* modified PrimaryKey and nothing for modified objects of other kinds; when
\* the PRIMARY KEY of users moves from id to email the report has exactly one
\* R5 conflict.
C14_R5ModifiedPrimaryKey ==
    /\ (pc = "report" /\ rules["R5"].enabled) =>
           LET r5 == ConflictsOf(result.conflicts, "R5")
           IN /\ Len(r5) = Cardinality(ModifiedPrimaryKeys)
              /\ \A i \in DOMAIN r5 : r5[i].level = CRITICAL
              /\ \A m \in ModifiedPrimaryKeys :
                     LET table == delta.objects_modified[m].after.attributes.table
                     IN Cardinality({i \in DOMAIN r5 :
                                        /\ r5[i].details.table = table
                                        /\ table \in Range(r5[i].message)})
                        = Cardinality({n \in ModifiedPrimaryKeys :
                              delta.objects_modified[n].after.attributes.table = table})
    /\ (pc = "done" /\ caught = <<>> /\ KeyMoved) =>
           LET r5 == ConflictsOf(report.conflicts, "R5")
           IN /\ Len(r5) = 1
              /\ r5[1].level = CRITICAL
              /\ r5[1].details.table = "users"

\* the run on the schemas with the moved primary key returned its report,
\* in which columns were modified too
C14_Witness ==
    /\ pc = "done" /\ caught = <<>> /\ KeyMoved
    /\ Cardinality(ModifiedPrimaryKeys) = 1
    /\ Len(delta.objects_modified) > 1
    /\ Len(ConflictsOf(report.conflicts, "R5")) = 1

\* the rules found a conflict of level critical for the compared schemas
FoundCritical ==
    \E r \in get_enabled_rules(rules) :
        LET out == rule_apply(r, delta, graph_a, graph_b, iteration)
        IN /\ ~out.raised
           /\ \E i \in DOMAIN out.conflicts : Lower(out.conflicts[i].level) = CRITICAL

\* C15: in the report of a run that went through all stages, summary.merge_blocked
\* is true exactly when a rule found a conflict of level critical, also when
\* that conflict was cut from the list by a truncation cap.
C15_MergeBlockedIffCriticalFound ==
    (pc = "done" /\ caught = <<>>) =>
        (report.summary.merge_blocked <=> FoundCritical)

\* the conflicts of a report as a set of (rule, level, message, details)
ConflictSet(rep) ==
    {[rule |-> rep.conflicts[i].rule, level |-> rep.conflicts[i].level,
      message |-> rep.conflicts[i].message, details |-> rep.conflicts[i].details] :
        i \in DOMAIN rep.conflicts}

\* the report of a call that an exception from outside the pipeline ended
Interrupted(rep) ==
    /\ "error" \in DOMAIN rep
    /\ rep.error.message[1] = "unexpected exception in stage"

WellFormed(sql) == SelectSeq(sql, LAMBDA st : ~parse_to_objects_raises(st))

\* the text has exactly one CREATE TABLE statement that does not match the
\* pattern and at least one that does
OneMalformedAmongWellFormed(sql) ==
    /\ Cardinality({i \in DOMAIN sql : parse_to_objects_raises(sql[i])}) = 1
    /\ WellFormed(sql) # <<>>

\* C17: when text B holds one malformed CREATE TABLE statement among
\* well-formed ones (and text A none), only that statement is skipped: the
\* run ends with a normal report and graph B is the graph of the well-formed
\* statements.
C17_MalformedStatementSkipped ==
    (/\ pc = "done"
     /\ ~Malformed(sql_a)
     /\ OneMalformedAmongWellFormed(sql_b)
     /\ ~Interrupted(report)) =>
        /\ "error" \notin DOMAIN report
        /\ graph_b = build_from_objects(_parse_schema(WellFormed(sql_b)).objects)

\* the same tables, columns and foreign keys, listed in another order
Reordered == sql_a = <<StmtUsers, StmtOrders>> /\ sql_b = <<StmtOrders, StmtUsers>>

\* C18: two schemas that differ only in the order of their tables compare
\* with empty edges_added and empty edges_removed.
C18_ReorderedTablesNoEdgeDelta ==
    (pc \in {"apply", "report"} /\ Reordered) =>
        /\ delta.edges_added = {}
        /\ delta.edges_removed = {}

\* the registry holding rule r alone
Alone(r) == [q \in {r} |-> rules[q]]

\* C19: apply_all leaves the Delta and both graphs as they were before the
\* call, and the conflicts of each rule in its result are those the rule
\* returns when it is the only rule of the registry, whichever rules ran
\* before it.
C19_ApplyAllLeavesInputs ==
    [][(pc = "apply" /\ pc' = "report") =>
          /\ delta' = delta
          /\ graph_a' = graph_a
          /\ graph_b' = graph_b
          /\ \A r \in get_enabled_rules(rules) :
                 ConflictsOf(result'.conflicts, r)
                 = apply_all(config, Alone(r), delta, graph_a, graph_b, iteration).conflicts]_vars

\* apply_all returned conflicts of two rules for a Delta with removed objects
C19_Witness ==
    /\ pc = "report"
    /\ delta.objects_removed # {}
    /\ ConflictsOf(result.conflicts, "R1") # <<>>
    /\ ConflictsOf(result.conflicts, "R4") # <<>>
    /\ graph_a.edges # {}

\* the tokens of type EOF
EndTokens == {k \in DOMAIN tokens : tokens[k].type = "EOF"}

\* C20: tokenize never raises and returns on every text; every iteration of
\* its loop moves the position forward by at least one character, a position
\* where no pattern matches yielding one Operator token of that single
\* character; the returned list ends with its only end-of-stream token.
C20_TokenizeTerminates ==
    /\ [](scan # "raised")
    /\ [][(scan = "loop" /\ scan' = "loop") =>
             /\ pos' >= pos + 1
             /\ ~master_match(sql_text, pos).matched =>
                    /\ pos' = pos + 1
                    /\ tokens' = Append(tokens, tokens'[Len(tokens')])
                    /\ tokens'[Len(tokens')].type = "OPERATOR"
                    /\ tokens'[Len(tokens')].value = <<sql_text[pos + 1]>>]_vars
    /\ [](scan = "returned" =>
             /\ pos = Len(sql_text)
             /\ EndTokens = {Len(tokens)})
    /\ <>(scan = "returned")

\* a text with characters no pattern matches has been tokenized
C20_Witness ==
    /\ scan = "returned"
    /\ Len(sql_text) = MaxLen
    /\ \E k \in DOMAIN tokens :
           tokens[k].type = "OPERATOR" /\ tokens[k].value \in {<<"$">>, <<"'">>}
    /\ \E k \in DOMAIN tokens : tokens[k].type = "STRING"

\* C21: normalize is idempotent: normalizing the text a first call returned
\* gives that text again.
C21_NormalizeIdempotent ==
    Len(normalized) = 2 => normalized[2] = normalized[1]

\* ---------------------------------------------------------------------
\* Properties of SchemaGraph used on its own
\* ---------------------------------------------------------------------
\* C22: after any sequence of add_vertex and add_edge calls the vertex ids
\* are exactly 1..n for the n add_vertex calls made, the i-th call returned i
\* and its object is still stored under i, the next id is n+1, and the
\* object stored under id i has its id attribute equal to i.
C22_VertexIdsAreCallOrder ==
    /\ DOMAIN schema_graph.vertices = 1..Len(added)
    /\ schema_graph.next_id = Len(added) + 1
    /\ \A i \in DOMAIN added :
         /\ added[i].returned = i
         /\ schema_graph.vertices[i] = added[i].ref
         /\ heap[schema_graph.vertices[i]].id = i

\* the edge set holds only edges between existing vertices, each once
EdgesWellFormed(g) ==
    /\ \A i \in DOMAIN g.edges :
         g.edges[i].src \in DOMAIN g.vertices /\ g.edges[i].dst \in DOMAIN g.vertices
    /\ \A i, j \in DOMAIN g.edges : Edge_eq(g.edges[i], g.edges[j]) => i = j

HasEdge(g, e) == \E i \in DOMAIN g.edges : Edge_eq(g.edges[i], e)

\* C23: after every operation each edge of the edge set joins two existing
\* vertices and no two edges have the same (src, dst, relation); an add_edge
\* call with a missing endpoint raises and leaves vertices and edges as they
\* were, and an add_edge call with an edge already present leaves the edge
\* set as it was.
C23_EdgeSetWellFormed ==
    [][/\ EdgesWellFormed(schema_graph')
       /\ Len(edge_calls') > Len(edge_calls) =>
            LET made == edge_calls'[Len(edge_calls')]
                missing == \/ made.edge.src \notin DOMAIN schema_graph.vertices
                           \/ made.edge.dst \notin DOMAIN schema_graph.vertices
            IN /\ made.raised = missing
               /\ missing => UNCHANGED schema_graph
               /\ HasEdge(schema_graph, made.edge) =>
                      schema_graph'.edges = schema_graph.edges
               /\ ~missing => HasEdge(schema_graph', made.edge)]_vars

\* an add_edge call repeated an edge the set already held, after which the
\* set holds that edge once
C23_Witness ==
    /\ Len(edge_calls) = 2
    /\ ~edge_calls[1].raised
    /\ Edge_eq(edge_calls[1].edge, edge_calls[2].edge)
    /\ Len(schema_graph.edges) = 1

\* the vertices other than the queried one from which it is reachable by
\* one or more edges whose relation passes the filter
RECURSIVE ReachableFrom(_, _, _, _)
ReachableFrom(g, relations, reached, n) ==
    IF n = 0 THEN reached
    ELSE ReachableFrom(g, relations,
                       reached \cup {g.edges[i].src : i \in
                                        {k \in DOMAIN g.edges :
                                            /\ g.edges[k].dst \in reached
                                            /\ relations.none \/ g.edges[k].relation \in relations.only}},
                       n - 1)

Ancestors(g, v, relations) ==
    LET direct == {g.edges[i].src : i \in
                      {k \in DOMAIN g.edges :
                          /\ g.edges[k].dst = v
                          /\ relations.none \/ g.edges[k].relation \in relations.only}}
    IN ReachableFrom(g, relations, direct, Len(g.edges)) \ {v}

\* every add_vertex call was given an object of its own
DistinctObjects == \A i, j \in DOMAIN added : added[i].ref = added[j].ref => i = j

\* C24: on a graph whose vertices are distinct objects transitive_dependents
\* returns one object per vertex, other than the queried one, from which the
\* queried vertex is reachable through edges that pass the relation filter,
\* also when two such vertices share (type, schema, name).
C24_TransitiveDependentsExact ==
    dependents.called /\ DistinctObjects =>
        /\ {heap[r].id : r \in dependents.result}
             = Ancestors(schema_graph, heap[dependents.obj].id, dependents.relations)
        /\ Cardinality(dependents.result)
             = Cardinality(Ancestors(schema_graph, heap[dependents.obj].id, dependents.relations))

\* ---------------------------------------------------------------------
\* Properties of the graphs GraphBuilder builds
\* ---------------------------------------------------------------------
\* two identifiers are the same up to case and surrounding double quotes
SameIdentifier(x, y) == Lower(Unquote(x)) = Lower(Unquote(y))

\* the Table vertices of g that carry the given (schema, name)
TablesNamed(g, schema, name) ==
    {t \in DOMAIN g.vertices :
        /\ g.vertices[t].type = TABLE
        /\ SameIdentifier(OrPublic(g.vertices[t].schema), OrPublic(schema))
        /\ SameIdentifier(g.vertices[t].name, name)}

\* the foreign keys recorded on the tables: <<table index, index in its list>>
ForeignKeyRecords(objects) ==
    UNION {{<<i, j>> : j \in DOMAIN objects[i].attributes.foreign_keys} : i \in DOMAIN objects}

ForeignKeyRecord(objects, rec) == objects[rec[1]].attributes.foreign_keys[rec[2]]

\* the referenced (schema, name) of the record is a table of the snapshot
Resolves(objects, rec) ==
    LET fk == ForeignKeyRecord(objects, rec)
    IN \E k \in DOMAIN objects :
          /\ SameIdentifier(OrPublic(objects[k].schema), OrPublic(fk.referenced_schema))
          /\ SameIdentifier(objects[k].name, fk.referenced_table)

ForeignKeyVertices(g) == {v \in DOMAIN g.vertices : g.vertices[v].type = FOREIGN_KEY}

\* vertex v stands for the record: it carries the record's tables and columns
\* and its outgoing edges are one DependsOn edge to the vertex of the table
\* the record is on (the i-th table of the list is vertex i) and one
\* References edge to a vertex of the referenced table
StandsFor(g, objects, v, rec) ==
    LET fk == ForeignKeyRecord(objects, rec)
        owner == objects[rec[1]]
        out == {e \in g.edges : e.src = v}
    IN /\ g.vertices[v].attributes.from_table = owner.name
       /\ g.vertices[v].attributes.to_table = fk.referenced_table
       /\ g.vertices[v].attributes.from_column = Get(fk, "column")
       /\ g.vertices[v].attributes.to_column = fk.referenced_column
       /\ \E r \in TablesNamed(g, fk.referenced_schema, fk.referenced_table) :
            out = {Edge(v, rec[1], DEPENDS_ON), Edge(v, r, REFERENCES)}

\* C25: in the graph build_from_objects returns there is one ForeignKey
\* vertex for each recorded foreign key whose referenced (schema, name),
\* compared without regard to case and quotes, is a table of the list, with a
\* DependsOn edge to the owning table and a References edge to the referenced
\* table, and there is nothing for the other foreign keys, wherever the
\* referenced table stands in the list.
C25_ForeignKeysResolved ==
    pc = "built" =>
        LET resolved == {rec \in ForeignKeyRecords(objects_a) : Resolves(objects_a, rec)}
        IN /\ Cardinality(ForeignKeyVertices(graph_a)) = Cardinality(resolved)
           /\ \A rec \in resolved :
                \E v \in ForeignKeyVertices(graph_a) : StandsFor(graph_a, objects_a, v, rec)
           /\ \A v \in ForeignKeyVertices(graph_a) :
                \E rec \in resolved : StandsFor(graph_a, objects_a, v, rec)
           /\ \A e \in graph_a.edges :
                e.relation = REFERENCES => e.src \in ForeignKeyVertices(graph_a)

\* the number of vertices the second pass adds for a table: each column, and
\* a key or unique constraint for the columns that have one
RECURSIVE DeclaredCount(_, _)
DeclaredCount(table, j) ==
    IF j > Len(table.columns) THEN 0
    ELSE LET attrs == table.columns[j].attributes
             is_pk == Truthy(Get(attrs, "is_primary_key"))
             is_uq == Truthy(Get(attrs, "is_unique")) /\ ~is_pk
         IN 1 + (IF is_pk THEN 1 ELSE 0) + (IF is_uq THEN 1 ELSE 0)
              + DeclaredCount(table, j + 1)

\* the index of the table whose columns and constraints include vertex v,
\* the vertices of table i starting at id first
RECURSIVE DeclaringTable(_, _, _, _)
DeclaringTable(objects, i, first, v) ==
    IF i > Len(objects) THEN 0
    ELSE IF v < first + DeclaredCount(objects[i], 1) THEN i
    ELSE DeclaringTable(objects, i + 1, first + DeclaredCount(objects[i], 1), v)

\* C26: in the graph build_from_objects returns every Column, PrimaryKey and
\* UniqueConstraint vertex has one outgoing Contains edge, to the vertex of
\* the table that declared it, and get_table_of_object returns that table
\* for it, the table itself for a Table vertex and none for a vertex without
\* a Contains edge, also when two tables of the list have the same name.
C26_ContainsDeclaringTable ==
    pc = "built" =>
        \A v \in DOMAIN graph_a.vertices :
            LET obj == graph_a.vertices[v]
                contains == {e \in graph_a.edges : e.src = v /\ e.relation = CONTAINS}
                declaring == DeclaringTable(objects_a, 1, Len(objects_a) + 1, v)
            IN /\ obj.type \in {COLUMN, PRIMARY_KEY, UNIQUE_CONSTRAINT} =>
                    /\ contains = {Edge(v, declaring, CONTAINS)}
                    /\ get_table_of_object(graph_a, obj) = {graph_a.vertices[declaring]}
               /\ obj.type = TABLE => get_table_of_object(graph_a, obj) = {obj}
               /\ contains = {} /\ obj.type # TABLE =>
                    get_table_of_object(graph_a, obj) = {NoObject}

\* ---------------------------------------------------------------------
\* Properties of RuleRegistry.apply_all and BaseRule.post_process_conflicts
\* ---------------------------------------------------------------------
\* the rule ids of the statistics entries, in the order of the entries
AppliedOrder(res) == [i \in DOMAIN res.statistics |-> res.statistics[i].rule_id]

Rank(level) ==
    CASE level = CRITICAL -> 1 [] level = HIGH -> 2 [] level = MEDIUM -> 3 [] level = LOW -> 4

\* the place of rule r in the list of applied rules
PlaceOf(applied, r) == CHOOSE i \in DOMAIN applied : applied[i] = r

\* the applied rules follow the configured order
InConfiguredOrder(applied) ==
    CASE config.rule_order = "by_id" ->
            \A i, j \in DOMAIN applied : i < j => RuleNumber(applied[i]) < RuleNumber(applied[j])
      [] config.rule_order = "by_criticality" ->
            \A i, j \in DOMAIN applied :
                i < j => Rank(rules[applied[i]].level) <= Rank(rules[applied[j]].level)
      [] config.rule_order = "custom" ->
            LET listed == SelectSeq(config.custom_order,
                                    LAMBDA r : r \in get_enabled_rules(rules))
            IN /\ Len(applied) >= Len(listed)
               /\ SubSeq(applied, 1, Len(listed)) = listed

Stamped(o, c, r, rule_config) ==
    LET kept == IF rule_config.include_details THEN DOMAIN c ELSE DOMAIN c \ {"details"}
    IN /\ DOMAIN o = kept \cup {"rule", "rule_name", "level"}
       /\ \A f \in kept : o[f] = c[f]
       /\ "rule" \notin DOMAIN c => o.rule = r
       /\ "rule_name" \notin DOMAIN c => o.rule_name = RULE_NAME(r)
       /\ "level" \notin DOMAIN c => o.level = rule_config.level

\* C28: for a rule with per-rule cap N whose apply returned k records, the
\* output of post_process_conflicts is those k records when k <= N, and the
\* first N of them followed by one record of level Low that reports k and N
\* when k > N; every record of the output has rule, rule_name and level, and
\* a value the rule set is kept.
C28_PerRuleCap ==
    call.op = "post_process_conflicts" =>
        LET k == Len(call.conflicts)
            N == call.config.max_reports_per_rule
            out == call.returned
            shown == IF k <= N THEN k ELSE N
        IN /\ Len(out) = IF k <= N THEN k ELSE N + 1
           /\ \A i \in 1..shown : Stamped(out[i], call.conflicts[i], call.rule, call.config)
           /\ k > N =>
                /\ out[N + 1].rule = call.rule
                /\ out[N + 1].rule_name = RULE_NAME(call.rule)
                /\ out[N + 1].level = LOW
                /\ out[N + 1].details.total_conflicts = k
                /\ out[N + 1].details.reported_conflicts = N
           /\ \A i \in DOMAIN out : {"rule", "rule_name", "level"} \subseteq DOMAIN out[i]

\* more records than the cap allows were returned, and one of the records
\* that are shown set a rule and a level of its own
C28_Witness ==
    /\ call.op = "post_process_conflicts"
    /\ call.config.max_reports_per_rule >= 1
    /\ Len(call.conflicts) > call.config.max_reports_per_rule
    /\ \E i \in 1..call.config.max_reports_per_rule :
         /\ "level" \in DOMAIN call.conflicts[i]
         /\ call.conflicts[i].level # call.config.level
         /\ call.conflicts[i].rule # call.rule

RECURSIVE ConflictsFoundSum(_, _)
ConflictsFoundSum(statistics, i) ==
    IF i > Len(statistics) THEN 0
    ELSE statistics[i].conflicts_found + ConflictsFoundSum(statistics, i + 1)

\* the conflicts of all rules, concatenated, as a registry without a
\* reachable limit returns them
AllConflicts ==
    apply_all([config EXCEPT !.max_total_conflicts = MaxTotalConflicts],
              rules, delta, graph_a, graph_b, iteration).conflicts

\* C29: with the global cap M and t conflicts from all rules, apply_all
\* returns the t conflicts when t <= M and the first M followed by one
\* SYSTEM record of level Low when t > M; summary.total_conflicts is the
\* length of the returned list, and conflicts_found summed over the
\* statistics entries is t.
C29_GlobalCap ==
    pc = "report" =>
        LET M == config.max_total_conflicts
            t == Len(AllConflicts)
        IN /\ t <= M => result.conflicts = AllConflicts
           /\ t > M =>
                /\ Len(result.conflicts) = M + 1
                /\ SubSeq(result.conflicts, 1, M) = SubSeq(AllConflicts, 1, M)
                /\ result.conflicts[M + 1].rule = "SYSTEM"
                /\ result.conflicts[M + 1].level = LOW
                /\ result.conflicts[M + 1].details.total_conflicts = t
                /\ result.conflicts[M + 1].details.reported_conflicts = M
           /\ result.summary.total_conflicts = Len(result.conflicts)
           /\ ConflictsFoundSum(result.statistics, 1) = t

\* two rules reported a conflict each under a cap of one: the first is
\* returned, followed by the SYSTEM record
C29_Witness ==
    /\ pc = "report"
    /\ config.max_total_conflicts = 1
    /\ Len(result.conflicts) = 2
    /\ result.conflicts[1].rule # "SYSTEM"
    /\ result.conflicts[2].rule = "SYSTEM"
    /\ Len(result.statistics) = 7

\* ---------------------------------------------------------------------
\* Properties of experimental matching
\* ---------------------------------------------------------------------
\* C30: with experimental matching on, the pairs match returns contain the
\* pairs of the key-based pass unchanged, no vertex id of A and none of B is
\* in more than one pair, every added pair joins two vertices of one object
\* type, and unique_a and unique_b are the vertex ids of A and B that are in
\* no pair.
C30_ExperimentalMatchSound ==
    pc = "matched" /\ match_result.status = "ok" =>
        LET pairs == match_result.pairs
            by_key == match(graph_a, graph_b, strict, FALSE).pairs
        IN /\ Len(pairs) >= Len(by_key)
           /\ SubSeq(pairs, 1, Len(by_key)) = by_key
           /\ \A i, j \in DOMAIN pairs :
                (pairs[i][1] = pairs[j][1] \/ pairs[i][2] = pairs[j][2]) => i = j
           /\ \A i \in DOMAIN pairs :
                /\ pairs[i][1] \in DOMAIN graph_a.vertices
                /\ pairs[i][2] \in DOMAIN graph_b.vertices
                /\ i > Len(by_key) =>
                     graph_a.vertices[pairs[i][1]].type = graph_b.vertices[pairs[i][2]].type
           /\ Range(match_result.unique_a)
                = DOMAIN graph_a.vertices \ {pairs[i][1] : i \in DOMAIN pairs}
           /\ Range(match_result.unique_b)
                = DOMAIN graph_b.vertices \ {pairs[i][2] : i \in DOMAIN pairs}
           /\ Len(match_result.unique_a) = Cardinality(Range(match_result.unique_a))
           /\ Len(match_result.unique_b) = Cardinality(Range(match_result.unique_b))

\* a pair was added to a pair of the key-based pass, and a vertex of A
\* stayed unmatched although a vertex of B of its type was similar enough
C30_Witness ==
    /\ pc = "matched"
    /\ match_result.status = "ok"
    /\ Len(match_result.pairs) = 1
    /\ match(graph_a, graph_b, strict, FALSE).pairs = <<>>
    /\ \E a \in Range(match_result.unique_a) :
         ~RatioLess(_calculate_vertex_similarity(graph_a.vertices[a],
                                                 graph_b.vertices[match_result.pairs[1][2]]),
                    similarity_threshold)

====
